---- MODULE Spec2Model ----
(***************************************************************************)
(* Model of the assignment / scoring service of the delivery platform     *)
(* (RouteOptimizationService) and of the model virtuals it reads, under    *)
(* Spec; of a Hub document and its addOrder / completeOrder methods,       *)
(* under HubSpec; of the authenticated order-status and cancel routes of  *)
(* the API, under AppSpec; of an Order document, its methods and the       *)
(* routes that assign it a driver, under OrderSpec; and of a Driver        *)
(* document and its assignOrder / completeDelivery methods, under          *)
(* DriverSpec.                                                             *)
(*                                                                         *)
(* Units.  Coordinates are <<longitude, latitude>> in thousandths of a    *)
(* degree, distances are metres, weights are kilograms, ratings are       *)
(* tenths of a star.  JavaScript numbers are modelled by exact rational   *)
(* arithmetic: a sub-score is carried as an integer numerator over the    *)
(* denominator named next to it.  Math.round is applied to the exact       *)
(* value; where that value is a half-integer the double the code rounds   *)
(* can lie on either side of it, and both roundings are outcomes (see     *)
(* MathRound).  NaN is carried explicitly (see NaN and Num).              *)
(***************************************************************************)
EXTENDS Integers, Sequences, FiniteSets, TLC

(***************************************************************************)
(* Bounds of the model.                                                    *)
(***************************************************************************)
MaxCapacity == 2    \* largest preferences.maxDeliveries explored
MaxHistory == 2     \* largest performance.stats.totalDeliveries explored
MaxQuantity == 2    \* largest item quantity explored
MaxPool == 3        \* longest candidate-driver pool explored
MaxBatch == 3       \* longest orderIds list explored
MaxStops == 3       \* longest list of delivery objects explored in full
MaxArrayStops == 2  \* longest list of bare coordinate arrays explored
MaxQuarterKm == 8   \* longest distance estimated on its own, in quarters of a km
MaxHubOrders == 2   \* largest capacity.maxOrders of the hub document
MaxHubEntries == 3  \* longest currentOrders array explored
MaxProcessed == 3

\* Entries of tracking.statusHistory from which no further change is taken.
MaxStatusHistory == 3

\* Delivery attempts recorded on one order.
MaxDeliveryAttempts == 3

\* preferences.maxDeliveries of the drivers created (the schema allows 1..50).
MaxDriverDeliveries == 2

\* Deliveries counted in performance.stats.totalDeliveries.
MaxCountedDeliveries == 3   \* most completeOrder calls explored on one hub

(***************************************************************************)
(* Program constants.                                                      *)
(***************************************************************************)
MetresPerDegree == 111195        \* R * PI / 180 with R = 6371 km, in metres
SearchRadius == 20000            \* findAvailableDrivers(pickup, 20000)
AverageSpeed == 30               \* km/h
BaseTime == 10                   \* minutes
NearestNeighborLimit == 10       \* deliveries.length <= 10
HubLimit == 5                    \* findAvailableHubs: limit(5)
MaxAttempts == 3                 \* addDeliveryAttempt: attemptNumber >= 3

NoDriversMessage == "No available drivers found in the area"
NoHubsMessage == "No available hubs found"
OrderNotFoundMessage == "Order not found"
NullUserMessage == "Cannot read properties of null (reading 'firstName')"

VehicleTypes == {"motorcycle", "car", "van", "truck"}

(***************************************************************************)
(* Arithmetic helpers.                                                     *)
(***************************************************************************)
Abs(x) == IF x < 0 THEN -x ELSE x

Max(a, b) == IF a >= b THEN a ELSE b

Min(a, b) == IF a <= b THEN a ELSE b

\* Math.round of the double computed for the rational num / den (den > 0), as the
\* set of its possible values.  Math.round(x) is floor(x + 0.5).  The double is
\* within rounding error of num / den, which decides floor(x + 0.5) unless
\* num / den is exactly a half-integer k - 0.5: then the double rounds to k or,
\* when it fell just below, to k - 1.
MathRound(num, den) ==
    LET k == (2 * num + den) \div (2 * den)
    IN  IF (2 * num + den) % (2 * den) = 0 THEN {k - 1, k} ELSE {k}

(***************************************************************************)
(* GeoMath.  The Haversine formula on two points of one meridian, or on    *)
(* two points of the equator, reduces to R * |angle|: a = sin^2(d/2), so   *)
(* c = |d| and the distance is R * |d| * PI / 180.  The model only places  *)
(* points on the meridian of longitude 0 and on the equator.               *)
(***************************************************************************)
calculateDistance(coord1, coord2) ==
    LET dLat == Abs(coord2[2] - coord1[2])
        dLon == Abs(coord2[1] - coord1[1])
    IN  CASE dLon = 0 -> (dLat * MetresPerDegree) \div 1000
          [] dLon # 0 /\ coord1[2] = 0 /\ coord2[2] = 0 ->
                (dLon * MetresPerDegree) \div 1000

(***************************************************************************)
(* Model virtuals.                                                         *)
(***************************************************************************)
\* Order virtual totalWeight: sum over the items of weight * quantity.
RECURSIVE SumWeights(_)
SumWeights(items) ==
    IF items = <<>> THEN 0
    ELSE Head(items).weight * Head(items).quantity + SumWeights(Tail(items))

totalWeight(order) == SumWeights(order.items)

\* Driver virtual successRate, as the rational <<numerator, denominator>>.
successRate(driver) ==
    IF driver.totalDeliveries = 0 THEN <<100, 1>>
    ELSE <<driver.successfulDeliveries * 100, driver.totalDeliveries>>

(***************************************************************************)
(* DriverScorer.                                                           *)
(***************************************************************************)
\* A JavaScript number that is either NaN or the integer `value`.
NaN == [nan |-> TRUE, value |-> 0]

Num(v) == [nan |-> FALSE, value |-> v]

\* Mutant: the weight check falls through instead of returning 0.
getVehicleCompatibilityScoreNoWeightCheck(vehicle, order) ==
    LET hasFragileItems == \E i \in 1..Len(order.items) : order.items[i].isFragile
        afterWeight == IF 10 * totalWeight(order) > 8 * vehicle.capacityWeight
                       THEN 100 - 20 ELSE 100
        afterBonus == IF hasFragileItems /\ vehicle.type \in {"car", "van"}
                      THEN afterWeight + 10 ELSE afterWeight
        afterPenalty == IF hasFragileItems /\ vehicle.type = "motorcycle"
                        THEN afterBonus - 30 ELSE afterBonus
    IN  Max(0, afterPenalty)

getVehicleCompatibilityScore(vehicle, order) ==
    LET hasFragileItems == \E i \in 1..Len(order.items) : order.items[i].isFragile
        \* weightUtilization > 0.8, with weightUtilization = totalWeight / capacity
        afterWeight == IF 10 * totalWeight(order) > 8 * vehicle.capacityWeight
                       THEN 100 - 20 ELSE 100
        afterBonus == IF hasFragileItems /\ vehicle.type \in {"car", "van"}
                      THEN afterWeight + 10 ELSE afterWeight
        afterPenalty == IF hasFragileItems /\ vehicle.type = "motorcycle"
                        THEN afterBonus - 30 ELSE afterBonus
    IN  IF totalWeight(order) > vehicle.capacityWeight THEN 0
        ELSE Max(0, afterPenalty)

\* distanceScore = Math.max(0, 100 - distance * 5), in thousandths (distance in
\* metres is distance-in-km times 1000).
distanceScore(driver, order) ==
    Max(0, 100000 - 5 * calculateDistance(driver.currentLocation, order.pickupCoordinates))

\* Mutant: the rating is taken out of 10 instead of out of 5.
ratingScoreOutOfTen(driver) == driver.ratingAverage

\* ratingScore = (rating.average / 5) * 100, the average being in tenths.
ratingScore(driver) == 2 * driver.ratingAverage

\* capacityScore numerator; the denominator is driver.maxDeliveries.
capacityScore(driver) == (driver.maxDeliveries - driver.activeDeliveries) * 100

\* driver.successRate || 100: 0 is falsy, so a success rate of 0 becomes 100.
successRateOrDefault(driver) ==
    IF successRate(driver)[1] = 0 THEN <<100, 1>> ELSE successRate(driver)

\* The weighted sum before Math.round, as numerator over ScoreDenominator:
\* 0.4 * distanceScore + 0.25 * ratingScore + 0.2 * capacityScore
\*   + 0.1 * vehicleScore + 0.05 * successRate (weights in hundredths).
ScoreDenominator(driver) ==
    100 * 1000 * driver.maxDeliveries * successRateOrDefault(driver)[2]

ScoreNumerator(driver, order) ==
    LET m == driver.maxDeliveries
        sr == successRateOrDefault(driver)
    IN    40 * distanceScore(driver, order) * m * sr[2]
        + 25 * ratingScore(driver) * 1000 * m * sr[2]
        + 20 * capacityScore(driver) * 1000 * sr[2]
        + 10 * getVehicleCompatibilityScore(driver.vehicle, order) * 1000 * m * sr[2]
        + 5 * sr[1] * 1000 * m

\* The values the call can return.  With maxDeliveries = 0 and no active
\* delivery the capacity term is 0 / 0 = NaN and so is the score
\* (Math.round(NaN) is NaN).
calculateDriverScore(driver, order) ==
    IF driver.maxDeliveries = 0 THEN {NaN}
    ELSE {Num(v) : v \in MathRound(ScoreNumerator(driver, order),
                                    ScoreDenominator(driver))}

\* Mutant: the preparation time is left out.
estimatePickupTimeNoBaseTime(distance) == MathRound(distance * 60, AverageSpeed * 1000)

\* estimatePickupTime = Math.round((distance / averageSpeed) * 60 + baseTime),
\* the distance being in metres here.
estimatePickupTime(distance) ==
    MathRound(distance * 60 + BaseTime * AverageSpeed * 1000, AverageSpeed * 1000)

(***************************************************************************)
(* Snapshots supplied by the data layer.                                   *)
(***************************************************************************)
PickupPoint == <<0, 0>>

ItemWeights == {1, 17, 30}

Items == [weight : ItemWeights, quantity : 1..MaxQuantity, isFragile : BOOLEAN]

LightItem(fragile) == [weight |-> 1, quantity |-> 1, isFragile |-> fragile]

\* Orders of one line item, and one order of two items of which the second is fragile.
Orders ==
    {[pickupCoordinates |-> PickupPoint, items |-> <<i>>] : i \in Items}
    \cup {[pickupCoordinates |-> PickupPoint,
           items |-> <<LightItem(FALSE), LightItem(TRUE)>>]}

NoOrder == [pickupCoordinates |-> PickupPoint, items |-> <<>>]

\* The populated user of a driver: <<>> stands for null (the referenced user is gone).
SomeUser == <<[firstName |-> "Ali", lastName |-> "Hassan"]>>

Vehicles == [type : VehicleTypes, capacityWeight : {20, 40}]

DefaultVehicle == [type |-> "car", capacityWeight |-> 200]

\* <<maxDeliveries, activeDeliveries.length>>: assignOrder keeps the load within
\* the capacity.
Loads == {l \in (0..MaxCapacity) \X (0..MaxCapacity) : l[2] <= l[1]}

\* <<totalDeliveries, successfulDeliveries>>
Histories == {h \in (0..MaxHistory) \X (0..MaxHistory) : h[2] <= h[1]}

Driver(id, user, lat, rating, load, vehicle, history) ==
    [id |-> id, user |-> user, currentLocation |-> <<0, lat>>,
     ratingAverage |-> rating,
     maxDeliveries |-> load[1], activeDeliveries |-> load[2],
     vehicle |-> vehicle,
     totalDeliveries |-> history[1], successfulDeliveries |-> history[2]]

NoDriver == Driver(0, <<>>, 0, 0, <<0, 0>>, DefaultVehicle, <<0, 0>>)

\* Drivers handed to calculateDriverScore: 0 m, 111 m, 10 km and 23 km from the
\* pickup point; ratings 1.0, 4.3 and 5.0.
ScoredDrivers ==
    {Driver(1, SomeUser, lat, r, l, v, h) :
        lat \in {0, 1, 90, 207}, r \in {10, 43, 50}, l \in Loads,
        v \in Vehicles, h \in Histories}

\* Candidates a pool can hold in its position id: a new driver (schema defaults:
\* rating 5.0, no history) that findAvailableDrivers finds within SearchRadius
\* of the pickup point, so 0 m, 111 m or 1 km from it and not 23 km.  The pool
\* is a snapshot of the stored documents: the service does not validate it, and
\* a document with maxDeliveries = 0 is scored like any other.
PoolLoads == {<<0, 0>>, <<1, 0>>, <<2, 1>>}

PoolCandidates(id) ==
    {d \in {Driver(id, SomeUser, lat, 50, l, DefaultVehicle, <<0, 0>>) :
                lat \in {0, 1, 9, 207}, l \in PoolLoads} :
        calculateDistance(d.currentLocation, PickupPoint) <= SearchRadius}

RECURSIVE Pools(_)
Pools(n) ==
    IF n = 0 THEN {<<>>}
    ELSE Pools(n - 1) \cup
         {Append(p, d) : p \in {q \in Pools(n - 1) : Len(q) = n - 1},
                         d \in PoolCandidates(n)}

(***************************************************************************)
(* What the data layer answers.                                            *)
(***************************************************************************)
\* Messages of the errors the data layer can reject a lookup with.  The service
\* forwards error.message as it is, whatever its text.
DependencyMessages == {"connect ECONNREFUSED", NoDriversMessage}

OrderFound(order) == [status |-> "found", order |-> order, message |-> ""]

OrderNull == [status |-> "null", order |-> NoOrder, message |-> ""]

OrderError(message) == [status |-> "error", order |-> NoOrder, message |-> message]

PoolOk(pool) == [status |-> "ok", pool |-> pool, message |-> ""]

PoolError(message) == [status |-> "error", pool |-> <<>>, message |-> message]

PoolNotCalled == [status |-> "not called", pool |-> <<>>, message |-> ""]

(***************************************************************************)
(* Array.prototype.sort((a, b) => b.score - a.score).                      *)
(***************************************************************************)
\* Stable insertion of e into a list sorted by descending score: e goes after
\* every element whose score is greater than or equal to its own.
RECURSIVE InsertByScore(_, _)
InsertByScore(sorted, e) ==
    IF sorted = <<>> THEN <<e>>
    ELSE IF Head(sorted).score.value >= e.score.value
         THEN <<Head(sorted)>> \o InsertByScore(Tail(sorted), e)
         ELSE <<e>> \o sorted

RECURSIVE StableSortByScore(_)
StableSortByScore(s) ==
    IF s = <<>> THEN <<>>
    ELSE InsertByScore(StableSortByScore(SubSeq(s, 1, Len(s) - 1)), s[Len(s)])

SeqPermutations(s) ==
    {[i \in 1..Len(s) |-> s[p[i]]] :
        p \in {q \in [1..Len(s) -> 1..Len(s)] :
                  \A i, j \in 1..Len(s) : q[i] = q[j] => i = j}}

\* With a NaN score b.score - a.score is NaN, the comparator is not consistent
\* and the resulting order is implementation-defined; otherwise the sort is
\* stable and descending.
SortByScore(s) ==
    IF \E i \in 1..Len(s) : s[i].score.nan
    THEN SeqPermutations(s)
    ELSE {StableSortByScore(s)}

\* Array.prototype.slice(from, to) with 0-based, end-exclusive indices.
Slice(s, from, to) == SubSeq(s, from + 1, Min(to, Len(s)))

(***************************************************************************)
(* AssignmentCoordinator: findBestDriver.                                  *)
(***************************************************************************)
\* What a call yields: it returns a value (kind "return") or throws (kind "throw").
Thrown(message) ==
    [kind |-> "throw", success |-> FALSE, message |-> message,
     driver |-> NoDriver, score |-> Num(0), distance |-> 0,
     estimatedPickupTime |-> 0, alternatives |-> <<>>]

NoDriversFound ==
    [kind |-> "return", success |-> FALSE, message |-> NoDriversMessage,
     driver |-> NoDriver, score |-> Num(0), distance |-> 0,
     estimatedPickupTime |-> 0, alternatives |-> <<>>]

\* bestDriver = driverScores[0], alternatives = driverScores.slice(1, 3)
BestDriverOf(sorted) ==
    {[kind |-> "return", success |-> TRUE, message |-> "",
      driver |-> sorted[1].driver, score |-> sorted[1].score,
      distance |-> sorted[1].distance,
      estimatedPickupTime |-> t,
      alternatives |-> Slice(sorted, 1, 3)] :
        t \in estimatePickupTime(sorted[1].distance)}

\* availableDrivers.map(driver => ({driver, score, distance})): the arrays the
\* map can build, one per choice of the scores calculateDriverScore can return.
driverScores(availableDrivers, order) ==
    LET n == Len(availableDrivers)
        scoresOf(i) == calculateDriverScore(availableDrivers[i], order)
    IN  {[i \in 1..n |->
            [driver |-> availableDrivers[i],
             score |-> f[i],
             distance |-> calculateDistance(availableDrivers[i].currentLocation,
                                            order.pickupCoordinates)]] :
          f \in {g \in [1..n -> UNION {scoresOf(i) : i \in 1..n}] :
                    \A i \in 1..n : g[i] \in scoresOf(i)}}

\* The orders in which the sorted array can come out.
RankedDrivers(availableDrivers, order) ==
    UNION {SortByScore(scored) : scored \in driverScores(availableDrivers, order)}

\* A run of findBestDriver: the driverScores array as it stands when the call
\* ends (sorted; empty when the call ends before scoring) and what the call yields.
Run(scores, result) == [driverScores |-> scores, result |-> result]

\* Mutant: the empty pool is not checked, so driverScores[0] is undefined and
\* reading bestDriver.driver throws a TypeError.
findBestDriverRunsNoEmptyCheck(orderLookup, poolLookup) ==
    CASE orderLookup.status = "error" -> {Run(<<>>, Thrown(orderLookup.message))}
      [] orderLookup.status = "null" -> {Run(<<>>, Thrown(OrderNotFoundMessage))}
      [] orderLookup.status = "found" /\ poolLookup.status # "ok" ->
            {Run(<<>>, Thrown(poolLookup.message))}
      [] orderLookup.status = "found" /\ poolLookup.status = "ok"
            /\ Len(poolLookup.pool) = 0 ->
            {Run(<<>>, Thrown("Cannot read properties of undefined (reading 'driver')"))}
      [] OTHER ->
            UNION {{Run(sorted, result) : result \in BestDriverOf(sorted)} :
                     sorted \in RankedDrivers(poolLookup.pool, orderLookup.order)}

\* The runs the call can take for what the two lookups answer (more than one
\* only when a score or the sort order has more than one outcome).  The catch
\* block rethrows the error it caught.
findBestDriverRuns(orderLookup, poolLookup) ==
    CASE orderLookup.status = "error" -> {Run(<<>>, Thrown(orderLookup.message))}
      [] orderLookup.status = "null" -> {Run(<<>>, Thrown(OrderNotFoundMessage))}
      [] orderLookup.status = "found" /\ poolLookup.status # "ok" ->
            {Run(<<>>, Thrown(poolLookup.message))}
      [] orderLookup.status = "found" /\ poolLookup.status = "ok"
            /\ Len(poolLookup.pool) = 0 ->
            {Run(<<>>, NoDriversFound)}
      [] OTHER ->
            UNION {{Run(sorted, result) : result \in BestDriverOf(sorted)} :
                     sorted \in RankedDrivers(poolLookup.pool, orderLookup.order)}

\* What findBestDriver can yield to its caller.
findBestDriver(orderLookup, poolLookup) ==
    {run.result : run \in findBestDriverRuns(orderLookup, poolLookup)}

(***************************************************************************)
(* HubSelector / getOptimalHub.                                            *)
(***************************************************************************)
Hub(id, lat, maxOrders, currentLoad) ==
    [id |-> id, coordinates |-> <<0, lat>>,
     maxOrders |-> maxOrders, currentLoad |-> currentLoad]

NoHub == Hub(0, 0, 1, 0)

\* Hub virtual availableCapacity
availableCapacity(hub) == hub.maxOrders - hub.currentLoad

\* Hubs findAvailableHubs can answer with in position id: active hubs with at
\* least one free place, 0, 10 or 100 km from the pickup point, empty or half
\* full.
HubCandidates(id) ==
    {Hub(id, lat, l[1], l[2]) :
        lat \in {0, 90, 900}, l \in {<<1, 0>>, <<2, 1>>}}

RECURSIVE HubPools(_)
HubPools(n) ==
    IF n = 0 THEN {<<>>}
    ELSE HubPools(n - 1) \cup
         {Append(p, h) : p \in {q \in HubPools(n - 1) : Len(q) = n - 1},
                         h \in HubCandidates(n)}

DeliveryPoints == {<<0, 0>>, <<0, 90>>}

\* totalScore = distanceScore * 0.7 + capacityScore * 0.3 as the rational
\* <<numerator, denominator>>, where
\*   distanceScore = Math.max(0, 100 - averageDistance * 3)
\*                 = Max(0, 200000 - 3 * (toPickup + toDelivery)) / 2000
\*   capacityScore = availableCapacity / maxOrders * 100
hubScore(hub, pickupCoords, deliveryCoords) ==
    LET distanceToPickup == calculateDistance(hub.coordinates, pickupCoords)
        distanceToDelivery == calculateDistance(hub.coordinates, deliveryCoords)
        distanceNum == Max(0, 200000 - 3 * (distanceToPickup + distanceToDelivery))
    IN  <<7 * distanceNum * hub.maxOrders + 3 * availableCapacity(hub) * 100 * 2000,
          10 * 2000 * hub.maxOrders>>

\* a >= b on rationals with positive denominators (the common factor 20000 of the
\* denominators is divided out before cross-multiplying).
RationalGeq(a, b) == a[1] * (b[2] \div 20000) >= b[1] * (a[2] \div 20000)

hubScores(availableHubs, pickupCoords, deliveryCoords) ==
    [i \in 1..Len(availableHubs) |->
        [hub |-> availableHubs[i],
         score |-> hubScore(availableHubs[i], pickupCoords, deliveryCoords)]]

RECURSIVE InsertByHubScore(_, _)
InsertByHubScore(sorted, e) ==
    IF sorted = <<>> THEN <<e>>
    ELSE IF RationalGeq(Head(sorted).score, e.score)
         THEN <<Head(sorted)>> \o InsertByHubScore(Tail(sorted), e)
         ELSE <<e>> \o sorted

\* Mutant: the scored hubs are left in the order of the lookup.
SortByHubScoreUnsorted(s) == s

\* hubScores.sort((a, b) => b.score - a.score): stable, descending.
RECURSIVE SortByHubScore(_)
SortByHubScore(s) ==
    IF s = <<>> THEN <<>>
    ELSE InsertByHubScore(SortByHubScore(SubSeq(s, 1, Len(s) - 1)), s[Len(s)])

HubThrown(message) ==
    [kind |-> "throw", success |-> FALSE, message |-> message,
     recommendedHub |-> NoHub, score |-> <<0, 20000>>, alternatives |-> <<>>]

NoHubsFound ==
    [kind |-> "return", success |-> FALSE, message |-> NoHubsMessage,
     recommendedHub |-> NoHub, score |-> <<0, 20000>>, alternatives |-> <<>>]

HubLookupOk(pool) == [status |-> "ok", pool |-> pool, message |-> ""]

HubLookupError(message) == [status |-> "error", pool |-> <<>>, message |-> message]

getOptimalHub(pickupCoords, deliveryCoords, hubLookup) ==
    IF hubLookup.status # "ok" THEN HubThrown(hubLookup.message)
    ELSE IF Len(hubLookup.pool) = 0 THEN NoHubsFound
    ELSE LET sorted == SortByHubScore(
                           hubScores(hubLookup.pool, pickupCoords, deliveryCoords))
         IN  [kind |-> "return", success |-> TRUE, message |-> "",
              recommendedHub |-> sorted[1].hub, score |-> sorted[1].score,
              alternatives |-> Slice(sorted, 1, 3)]

(***************************************************************************)
(* AssignmentCoordinator: batchAssignOrders.                               *)
(***************************************************************************)
OrderIds == {"o1", "o2"}

RECURSIVE OrderIdLists(_)
OrderIdLists(n) ==
    IF n = 0 THEN {<<>>}
    ELSE OrderIdLists(n - 1) \cup
         {Append(l, id) : l \in {k \in OrderIdLists(n - 1) : Len(k) = n - 1},
                          id \in OrderIds}

EmptyResults(ids) ==
    [successful |-> <<>>, failed |-> <<>>,
     summary |-> [total |-> Len(ids), assigned |-> 0, unassigned |-> 0]]

Failure(results, orderId, reason) ==
    [results EXCEPT !.failed = Append(@, [orderId |-> orderId, reason |-> reason]),
                    !.summary.unassigned = @ + 1]

\* Mutant: the catch block does not record the order whose lookup threw.
batchIterationDropsThrown(results, orderId, assignment) ==
    IF assignment.kind = "throw" THEN results
    ELSE IF assignment.success
    THEN IF assignment.driver.user = <<>>
         THEN Failure(results, orderId, NullUserMessage)
         ELSE [results EXCEPT
                 !.successful = Append(@,
                     [orderId |-> orderId,
                      driverId |-> assignment.driver.id,
                      driverName |-> <<assignment.driver.user[1].firstName, " ",
                                       assignment.driver.user[1].lastName>>,
                      score |-> assignment.score,
                      distance |-> assignment.distance]),
                 !.summary.assigned = @ + 1]
    ELSE Failure(results, orderId, assignment.message)

\* One pass of the for loop, `assignment` being what findBestDriver yielded for
\* orderId.  Reading assignment.driver.user.firstName of a driver whose user is
\* null throws a TypeError inside the try block, before anything is pushed.
batchIteration(results, orderId, assignment) ==
    IF assignment.kind = "throw" THEN Failure(results, orderId, assignment.message)
    ELSE IF assignment.success
    THEN IF assignment.driver.user = <<>>
         THEN Failure(results, orderId, NullUserMessage)
         ELSE [results EXCEPT
                 !.successful = Append(@,
                     [orderId |-> orderId,
                      driverId |-> assignment.driver.id,
                      driverName |-> <<assignment.driver.user[1].firstName, " ",
                                       assignment.driver.user[1].lastName>>,
                      score |-> assignment.score,
                      distance |-> assignment.distance]),
                 !.summary.assigned = @ + 1]
    ELSE Failure(results, orderId, assignment.message)

(***************************************************************************)
(* What the data layer can answer to the lookups of one call.              *)
(***************************************************************************)
\* Orders looked up by findBestDriver when it is called on its own.
RankedOrders ==
    {[pickupCoordinates |-> PickupPoint, items |-> <<LightItem(f)>>] : f \in BOOLEAN}

OrderLookups ==
    {OrderNull} \cup {OrderError(m) : m \in DependencyMessages}
    \cup {OrderFound(o) : o \in RankedOrders}

PoolLookups ==
    {PoolError(m) : m \in DependencyMessages} \cup {PoolOk(p) : p \in Pools(MaxPool)}

\* Answers explored inside a batch: every way a lookup fails, the empty pool,
\* a pool of one driver, a pool whose best driver has lost its user, and a
\* pool of two drivers.
BatchOrder == [pickupCoordinates |-> PickupPoint, items |-> <<LightItem(FALSE)>>]

BatchPools ==
    {<<>>,
     <<Driver(1, SomeUser, 0, 50, <<1, 0>>, DefaultVehicle, <<0, 0>>)>>,
     <<Driver(1, <<>>, 0, 50, <<1, 0>>, DefaultVehicle, <<0, 0>>)>>,
     <<Driver(1, SomeUser, 9, 50, <<2, 1>>, DefaultVehicle, <<0, 0>>),
       Driver(2, SomeUser, 1, 50, <<1, 0>>, DefaultVehicle, <<0, 0>>)>>}

BatchLookups ==
    {<<OrderNull, PoolNotCalled>>}
    \cup {<<OrderError(m), PoolNotCalled>> : m \in DependencyMessages}
    \cup {<<OrderFound(BatchOrder), PoolError(m)>> : m \in DependencyMessages}
    \cup {<<OrderFound(BatchOrder), PoolOk(p)>> : p \in BatchPools}

(***************************************************************************)
(* RouteSequencer: optimizeRoute and nearestNeighborOptimization.          *)
(*                                                                         *)
(* A delivery is either an object with a coordinates property (what        *)
(* nearestNeighborOptimization reads) or a bare [longitude, latitude]      *)
(* array (what the JSDoc of optimizeRoute announces).  Reading             *)
(* .coordinates of an array, or [0] and [1] of an object, gives undefined. *)
(***************************************************************************)
Delivery(id, lat) == [isArray |-> FALSE, id |-> id, coordinates |-> <<0, lat>>]

BareCoordinates(lat) == [isArray |-> TRUE, id |-> "", coordinates |-> <<0, lat>>]

\* Stops A, B, C of the scenario (latitudes 0, 10 and 5 degrees), and a stop D
\* at the coordinates of B.
StopA == Delivery("A", 0)

StopB == Delivery("B", 10000)

StopC == Delivery("C", 5000)

Stops == {StopA, StopB, StopC, Delivery("D", 10000)}

StartPoints == {<<0, 0>>, <<0, 5000>>}

RECURSIVE DeliveryLists(_, _)
DeliveryLists(stops, n) ==
    IF n = 0 THEN {<<>>}
    ELSE DeliveryLists(stops, n - 1) \cup
         {Append(l, d) : l \in {m \in DeliveryLists(stops, n - 1) : Len(m) = n - 1},
                         d \in stops}

\* Lists longer than the nearest-neighbour limit: two stops in alternation.
LongDeliveryLists ==
    {[i \in 1..(NearestNeighborLimit + 1) |-> IF i % 2 = 1 THEN s ELSE t] :
        s \in Stops, t \in Stops}

\* The lists optimizeRoute is called with: objects throughout, or bare
\* coordinate arrays throughout.
RouteInputs ==
    DeliveryLists(Stops, MaxStops) \cup LongDeliveryLists
    \cup DeliveryLists({BareCoordinates(0), BareCoordinates(5000)}, MaxArrayStops)

UndefinedReadMessage == "Cannot read properties of undefined (reading '1')"

RouteThrown(message) ==
    [kind |-> "throw", success |-> FALSE, message |-> message, route |-> <<>>,
     totalDistance |-> Num(0), estimatedTime |-> Num(0)]

RouteReturned(route, totalDistance, estimatedTime) ==
    [kind |-> "return", success |-> TRUE, message |-> "", route |-> route,
     totalDistance |-> totalDistance, estimatedTime |-> estimatedTime]

\* calculateDistance(startPoint, deliveries[0]) of optimizeRoute, in metres: the
\* delivery itself is indexed, so an object yields undefined - undefined = NaN.
distanceToDelivery(startPoint, delivery) ==
    IF delivery.isArray THEN Num(calculateDistance(startPoint, delivery.coordinates))
    ELSE NaN

\* estimatePickupTime of a JavaScript number: Math.round(NaN) is NaN.
estimatePickupTimeOf(distance) ==
    IF distance.nan THEN {NaN}
    ELSE {Num(t) : t \in estimatePickupTime(distance.value)}

\* The inner scan of nearestNeighborOptimization from index i on (1-based):
\* a strictly smaller distance replaces the nearest found so far.
RECURSIVE scanNearest(_, _, _, _)
scanNearest(currentPoint, remaining, i, nearest) ==
    IF i > Len(remaining) THEN nearest
    ELSE scanNearest(currentPoint, remaining, i + 1,
            IF calculateDistance(currentPoint, remaining[i].coordinates)
                 < calculateDistance(currentPoint, remaining[nearest].coordinates)
            THEN i ELSE nearest)

\* Mutant: the scan compares with <=, so the last minimum wins.
nearestIndexLastMinimum(currentPoint, remaining) ==
    CHOOSE i \in 1..Len(remaining) :
        \A j \in 1..Len(remaining) :
            LET di == calculateDistance(currentPoint, remaining[i].coordinates)
                dj == calculateDistance(currentPoint, remaining[j].coordinates)
            IN  di < dj \/ (di = dj /\ i >= j)

\* Mutant: no scan, the first remaining delivery is taken.
nearestIndexNoScan(currentPoint, remaining) == 1

nearestIndex(currentPoint, remaining) == scanNearest(currentPoint, remaining, 2, 1)

\* remaining.splice(index, 1)
Splice(s, index) == SubSeq(s, 1, index - 1) \o SubSeq(s, index + 1, Len(s))

\* The locals of nearestNeighborOptimization on entry; deliveries is the
\* caller's array, remaining a copy of it.
nearestNeighborEntry(deliveries, startPoint) ==
    [deliveries |-> deliveries, startPoint |-> startPoint,
     remaining |-> deliveries, route |-> <<>>,
     currentPoint |-> startPoint, totalDistance |-> 0]

\* Mutant: the spliced delivery is the first of remaining, not the nearest.
nearestNeighborStepSplicesFirst(call) ==
    LET index == nearestIndex(call.currentPoint, call.remaining)
        nearestDelivery == call.remaining[index]
    IN  [call EXCEPT
            !.remaining = Splice(call.remaining, 1),
            !.route = Append(call.route, nearestDelivery),
            !.currentPoint = nearestDelivery.coordinates,
            !.totalDistance = @ + calculateDistance(call.currentPoint,
                                                    nearestDelivery.coordinates)]

\* Mutant: remaining is the caller's array itself, not a copy of it.
nearestNeighborStepOnCallersArray(call) ==
    LET index == nearestIndex(call.currentPoint, call.remaining)
        nearestDelivery == call.remaining[index]
    IN  [call EXCEPT
            !.deliveries = Splice(call.remaining, index),
            !.remaining = Splice(call.remaining, index),
            !.route = Append(call.route, nearestDelivery),
            !.currentPoint = nearestDelivery.coordinates,
            !.totalDistance = @ + calculateDistance(call.currentPoint,
                                                    nearestDelivery.coordinates)]

\* One pass of the while loop, on objects with coordinates.
nearestNeighborStep(call) ==
    LET index == nearestIndex(call.currentPoint, call.remaining)
        nearestDelivery == call.remaining[index]
    IN  [call EXCEPT
            !.remaining = Splice(call.remaining, index),
            !.route = Append(call.route, nearestDelivery),
            !.currentPoint = nearestDelivery.coordinates,
            !.totalDistance = @ + calculateDistance(call.currentPoint,
                                                    nearestDelivery.coordinates)]

\* The object nearestNeighborOptimization returns: the total rounded to two
\* decimals of a kilometre (tens of metres), the time estimated on the
\* unrounded total.
nearestNeighborResults(call) ==
    {RouteReturned(call.route, Num(10 * d), Num(t)) :
        d \in MathRound(call.totalDistance, 10),
        t \in estimatePickupTime(call.totalDistance)}

\* The return of optimizeRoute for at most one delivery.
shortRouteResults(deliveries, startPoint) ==
    IF Len(deliveries) = 0 THEN {RouteReturned(deliveries, Num(0), Num(0))}
    ELSE {RouteReturned(deliveries, distanceToDelivery(startPoint, deliveries[1]), t) :
            t \in estimatePickupTimeOf(distanceToDelivery(startPoint, deliveries[1]))}

(***************************************************************************)
(* The Hub document: capacity.maxOrders, capacity.currentLoad, the         *)
(* currentOrders array and the processed counters of performance.stats.    *)
(***************************************************************************)
\* new Hub(hubData): currentLoad and the counters take their default 0.
HubDocument(maxOrders) ==
    [exists |-> TRUE, maxOrders |-> maxOrders, currentLoad |-> 0,
     currentOrders |-> <<>>, totalProcessed |-> 0, currentMonthProcessed |-> 0]

NoHubDocument == [HubDocument(1) EXCEPT !.exists = FALSE]

\* The entry addOrder pushes (driverId defaults to null).
HubOrderEntry(orderId) ==
    [order |-> orderId, status |-> "incoming", assignedDriver |-> "null"]

\* currentOrders.pull({ order: orderId }): the entries of that order leave.
RECURSIVE Pull(_, _)
Pull(currentOrders, orderId) ==
    IF currentOrders = <<>> THEN <<>>
    ELSE IF Head(currentOrders).order = orderId THEN Pull(Tail(currentOrders), orderId)
    ELSE <<Head(currentOrders)>> \o Pull(Tail(currentOrders), orderId)

\* save() validates the document first: capacity.currentLoad has min 0.
HubValidates(hub) == hub.currentLoad >= 0

\* addOrder up to save(): throws on a full hub, before anything is changed.
addOrderThrows(hub) == hub.currentLoad >= hub.maxOrders

addOrder(hub, orderId) ==
    [hub EXCEPT !.currentOrders = Append(@, HubOrderEntry(orderId)),
                !.currentLoad = @ + 1]

\* completeOrder up to save(): no check that the order is in the hub.
completeOrder(hub, orderId) ==
    [hub EXCEPT !.currentOrders = Pull(@, orderId),
                !.currentLoad = @ - 1,
                !.totalProcessed = @ + 1,
                !.currentMonthProcessed = @ + 1]

(***************************************************************************)
(* The Order document: status, tracking.statusHistory, deliveryAttempts    *)
(* and metadata.lastModifiedBy.                                            *)
(***************************************************************************)
OrderStatuses ==
    {"pending", "confirmed", "pickup_scheduled", "picked_up", "in_transit", "at_hub",
     "out_for_delivery", "delivered", "failed_delivery", "returned", "cancelled",
     "refunded"}

HistoryEntry(status, updatedBy) == [status |-> status, updatedBy |-> updatedBy]

\* A document saved for the first time: the pre-save hook pushes its status.
OrderDocument(status, createdBy) ==
    [exists |-> TRUE, status |-> status,
     statusHistory |-> <<HistoryEntry(status, createdBy)>>,
     deliveryAttempts |-> <<>>, lastModifiedBy |-> "", assignedDriver |-> ""]

NoOrderDocument ==
    [exists |-> FALSE, status |-> "pending", statusHistory |-> <<>>,
     deliveryAttempts |-> <<>>, lastModifiedBy |-> "", assignedDriver |-> ""]

\* Mutant: the hook as it would be without its status branch.
preSaveWithoutStatusPush(doc, saved) == doc

\* The pre-save hook on a stored document: a modified status is pushed.
preSave(doc, saved) ==
    IF doc.status # saved.status
    THEN [doc EXCEPT !.statusHistory =
                        Append(@, HistoryEntry(doc.status, doc.lastModifiedBy))]
    ELSE doc

\* order.updateStatus(newStatus, notes, updatedBy), save() included.
updateStatus(doc, newStatus, updatedBy) ==
    preSave([doc EXCEPT !.status = newStatus,
                        !.lastModifiedBy = updatedBy,
                        !.statusHistory = Append(@, HistoryEntry(newStatus, updatedBy))],
            doc)

\* order.addDeliveryAttempt(result, ...), save() included.
addDeliveryAttempt(doc, result, driver) ==
    LET attemptNumber == Len(doc.deliveryAttempts) + 1
        pushed == [doc EXCEPT !.deliveryAttempts =
                       Append(@, [attemptNumber |-> attemptNumber,
                                  result |-> result, driver |-> driver])]
    IN  preSave(IF result = "success" THEN [pushed EXCEPT !.status = "delivered"]
                ELSE IF result = "failed" /\ attemptNumber >= MaxAttempts
                     THEN [pushed EXCEPT !.status = "returned"]
                     ELSE pushed,
                doc)

\* deliveryAttempts.result: the values the schema accepts, and one it rejects.
AttemptResults == {"success", "failed", "rescheduled", "customer_not_available"}

\* POST /api/orders/:id/assign-driver on the document findById returned, up to
\* the response: the handler assigns status itself, then calls updateStatus.
assignDriver(doc, driverId, userId) ==
    preSave([doc EXCEPT !.assignedDriver = driverId,
                        !.status = "pickup_scheduled",
                        !.lastModifiedBy = userId,
                        !.statusHistory =
                            Append(@, HistoryEntry("pickup_scheduled", userId))],
            doc)

\* POST /api/drivers/:id/accept-order: refused when another driver has the
\* order, else assignedDriver and status are set and the order saved.
acceptOrderRefused(doc, driverId) ==
    doc.assignedDriver # "" /\ doc.assignedDriver # driverId

acceptOrder(doc, driverId) ==
    preSave([doc EXCEPT !.assignedDriver = driverId, !.status = "pickup_scheduled"],
            doc)

(***************************************************************************)
(* The Driver document: status, activeDeliveries, preferences.maxDeliveries *)
(* and the delivery counters of performance.                               *)
(***************************************************************************)
DriverStatuses == {"inactive", "available", "busy", "on_break", "offline"}

\* A driver as Driver.create stores it: status defaults to 'inactive'.
DriverDocument(maxDeliveries) ==
    [exists |-> TRUE, status |-> "inactive", activeDeliveries |-> <<>>,
     maxDeliveries |-> maxDeliveries, totalDeliveries |-> 0,
     successfulDeliveries |-> 0, failedDeliveries |-> 0,
     currentMonthDeliveries |-> 0]

NoDriverDocument == [DriverDocument(1) EXCEPT !.exists = FALSE]

\* The orders a driver is given.
DeliveryIds == {"o1", "o2", "o3"}

\* activeDeliveries.includes(orderId)
includes(activeDeliveries, orderId) ==
    \E i \in 1..Len(activeDeliveries) : activeDeliveries[i] = orderId

\* activeDeliveries.pull(orderId): every element equal to orderId leaves.
RECURSIVE pull(_, _)
pull(activeDeliveries, orderId) ==
    IF activeDeliveries = <<>> THEN <<>>
    ELSE IF Head(activeDeliveries) = orderId THEN pull(Tail(activeDeliveries), orderId)
    ELSE <<Head(activeDeliveries)>> \o pull(Tail(activeDeliveries), orderId)

\* assignOrder up to save(): throws at full capacity, before anything else.
assignOrderThrows(driver) == Len(driver.activeDeliveries) >= driver.maxDeliveries

\* Mutant: the order is pushed without looking for it in activeDeliveries.
assignOrderAlwaysPushes(driver, orderId) ==
    [driver EXCEPT !.activeDeliveries = Append(@, orderId), !.status = "busy"]

assignOrder(driver, orderId) ==
    IF ~includes(driver.activeDeliveries, orderId)
    THEN [driver EXCEPT !.activeDeliveries = Append(@, orderId), !.status = "busy"]
    ELSE driver

\* completeDelivery(orderId, successful) up to save().
completeDelivery(driver, orderId, successful) ==
    LET left == pull(driver.activeDeliveries, orderId)
    IN  [driver EXCEPT !.activeDeliveries = left,
                       !.totalDeliveries = @ + 1,
                       !.currentMonthDeliveries = @ + 1,
                       !.successfulDeliveries = IF successful THEN @ + 1 ELSE @,
                       !.failedDeliveries = IF successful THEN @ ELSE @ + 1,
                       !.status = IF left = <<>> THEN "available" ELSE @]

(***************************************************************************)
(* middleware/auth and updateOrderStatus.                                  *)
(***************************************************************************)
\* jwt.verify(token, secret, {issuer, audience}): the payload of a token the
\* server signed, an error for anything else.
SignedTokens == {"driver-token", "merchant-token"}

Tokens == SignedTokens \cup {"", "invalid-token-12345"}

jwtVerify(token) ==
    CASE token = "driver-token" -> [userId |-> "driver1", role |-> "driver"]
      [] token = "merchant-token" -> [userId |-> "merchant1", role |-> "merchant"]

\* req.user before any middleware sets it.
NoUser == [userId |-> "", role |-> ""]

\* The Authorization header: absent, or a scheme prefix followed by a token.
NoHeader == [present |-> FALSE, prefix |-> "", token |-> ""]

Headers ==
    {NoHeader}
    \cup {[present |-> TRUE, prefix |-> "Basic ", token |-> "driver-token"]}
    \cup {[present |-> TRUE, prefix |-> "Bearer ", token |-> t] : t \in Tokens}

Routes ==
    {"GET /api/auth/me", "PUT /api/orders/:id/status", "DELETE /api/orders/:id"}

NoRequest ==
    [stage |-> "none", route |-> "", header |-> NoHeader, id |-> "", status |-> "",
     user |-> NoUser, reached |-> <<>>, response |-> 0, before |-> NoOrderDocument]

\* Mutant: a header that is missing or fails verification is let through
\* without a user, as optionalAuth does.
authenticateLetsThrough(req) ==
    IF req.header.present /\ req.header.prefix = "Bearer "
          /\ req.header.token \in SignedTokens
    THEN [req EXCEPT !.user = jwtVerify(req.header.token), !.stage = "next"]
    ELSE [req EXCEPT !.stage = "next"]

\* authenticate(req, res, next)
authenticate(req) ==
    IF ~req.header.present \/ req.header.prefix # "Bearer "
    THEN [req EXCEPT !.response = 401, !.stage = "responded"]
    ELSE IF req.header.token \in SignedTokens
         THEN [req EXCEPT !.user = jwtVerify(req.header.token), !.stage = "next"]
         ELSE [req EXCEPT !.response = 401, !.stage = "responded"]

\* authorize('admin', 'driver')(req, res, next)
authorize(roles, req) ==
    IF req.user = NoUser \/ req.user.role \notin roles
    THEN [req EXCEPT !.response = 403, !.stage = "responded"]
    ELSE [req EXCEPT !.stage = "next"]

validTransitions(status) ==
    CASE status = "pending" -> {"confirmed", "cancelled"}
      [] status = "confirmed" -> {"pickup_scheduled", "cancelled"}
      [] status = "pickup_scheduled" -> {"picked_up", "cancelled"}
      [] status = "picked_up" -> {"in_transit", "returned"}
      [] status = "in_transit" -> {"out_for_delivery", "returned"}
      [] status = "out_for_delivery" -> {"delivered", "failed_delivery"}
      [] status = "failed_delivery" -> {"out_for_delivery", "returned"}
      [] status = "delivered" -> {"returned"}
      [] status \in {"returned", "cancelled", "refunded"} -> {}
      [] OTHER -> {}

\* Mutant: any status some transition leads to is accepted from any status.
transitionAllowedToAnyTarget(orderStatus, status) ==
    status \in UNION {validTransitions(s) : s \in OrderStatuses}

\* validTransitions[order.status]?.includes(status)
transitionAllowed(orderStatus, status) == status \in validTransitions(orderStatus)

\* updateOrderStatus(req, res) on the document findById returned: the response
\* status and the document as the handler leaves it.
updateOrderStatus(req, doc) ==
    IF ~doc.exists \/ req.id # "o1" THEN [response |-> 404, order |-> doc]
    ELSE IF ~transitionAllowed(doc.status, req.status)
    THEN [response |-> 400, order |-> doc]
    ELSE LET updated == updateStatus(doc, req.status, req.user.userId)
         IN  [response |-> 200,
              order |-> IF req.status \in {"failed_delivery", "delivered"}
                        THEN addDeliveryAttempt(updated,
                                 IF req.status = "delivered" THEN "success"
                                 ELSE "failed",
                                 req.user.userId)
                        ELSE updated]

\* The merchant of the stored order.
OrderMerchant == "merchant1"

nonCancellableStatuses == {"delivered", "cancelled", "refunded"}

\* cancelOrder(req, res) on the document findOne(query) returned: a merchant's
\* query matches the merchant's own orders only.
cancelOrder(req, doc) ==
    IF \/ ~doc.exists \/ req.id # "o1"
       \/ (req.user.role = "merchant" /\ OrderMerchant # req.user.userId)
    THEN [response |-> 404, order |-> doc]
    ELSE IF doc.status \in nonCancellableStatuses
    THEN [response |-> 400, order |-> doc]
    ELSE [response |-> 200, order |-> updateStatus(doc, "cancelled", req.user.userId)]

(***************************************************************************)
(* State.                                                                  *)
(***************************************************************************)
VARIABLES
    pc,          \* "idle", or the call whose result is being handed back
    scoreCall,   \* calculateDriverScore: the driver, the order and the score
    bestCall,    \* findBestDriver: what the lookups answered, driverScores, the result
    hubCall,     \* getOptimalHub: the points, what the lookup answered, the result
    orderIds,    \* batchAssignOrders: the argument
    served,      \* batchAssignOrders: per order processed, what the lookups
                 \* answered and what findBestDriver yielded
    results,     \* batchAssignOrders: the results object
    routeCall,   \* optimizeRoute: the arguments and the locals of
                 \* nearestNeighborOptimization
    routeResult, \* optimizeRoute: what the call yields
    timeCall,    \* estimatePickupTime: the distance (metres) and the minutes
    hubDoc,      \* a Hub document in memory
    hubSaved,    \* the same hub as the database holds it
    hubOp,       \* the last method called on hubDoc, the document as it was
                 \* before the call, and how the call ended
    orderDoc,    \* an Order document of the database
    request,     \* the HTTP request being served: what it carries, req.user,
                 \* the middleware and handlers it has reached, the response
    orderOp,     \* the last method or route that saved orderDoc, the document
                 \* as it was before, and how the call ended
    driverDoc,   \* a Driver document of the database
    driverOp     \* the last method called on driverDoc, likewise

serviceVars == <<scoreCall, bestCall, hubCall, orderIds, served, results>>

routeVars == <<routeCall, routeResult>>

hubVars == <<hubDoc, hubSaved, hubOp>>

appVars == <<orderDoc, request>>

driverVars == <<driverDoc, driverOp>>

docVars == <<orderOp, driverVars>>

storeVars == <<hubVars, appVars, docVars>>

vars == <<pc, serviceVars, routeVars, timeCall, storeVars>>

NoScoreCall == [driver |-> NoDriver, order |-> NoOrder, score |-> Num(0)]

NoBestCall ==
    [orderLookup |-> OrderNull, poolLookup |-> PoolNotCalled,
     driverScores |-> <<>>, result |-> Thrown("")]

NoHubCall ==
    [pickupCoords |-> PickupPoint, deliveryCoords |-> PickupPoint,
     hubLookup |-> HubLookupOk(<<>>), result |-> HubThrown("")]

NoRouteCall == nearestNeighborEntry(<<>>, PickupPoint)

NoHubOp == [method |-> "", order |-> "", before |-> NoHubDocument, outcome |-> ""]

NoOrderOp ==
    [method |-> "", result |-> "", before |-> NoOrderDocument, outcome |-> ""]

NoDriverOp ==
    [method |-> "", order |-> "", before |-> NoDriverDocument, outcome |-> ""]

NoTimeCall == [distance |-> 0, minutes |-> 0]

\* The distances estimatePickupTime is called with on its own, in metres: the
\* 0 and 15 km of the scenarios and every quarter of a kilometre up to the bound.
PickupDistances == {0, 15000} \cup {250 * k : k \in 0..MaxQuarterKm}

Init ==
    /\ pc = "idle"
    /\ routeCall = NoRouteCall
    /\ routeResult = RouteThrown("")
    /\ timeCall = NoTimeCall
    /\ hubDoc = NoHubDocument
    /\ hubSaved = NoHubDocument
    /\ hubOp = NoHubOp
    /\ orderDoc = NoOrderDocument
    /\ request = NoRequest
    /\ orderOp = NoOrderOp
    /\ driverDoc = NoDriverDocument
    /\ driverOp = NoDriverOp
    /\ scoreCall = NoScoreCall
    /\ bestCall = NoBestCall
    /\ hubCall = NoHubCall
    /\ orderIds = <<>>
    /\ served = <<>>
    /\ results = EmptyResults(<<>>)

(***************************************************************************)
(* Actions.                                                                *)
(***************************************************************************)
CalculateDriverScore ==
    /\ pc = "idle"
    /\ \E driver \in ScoredDrivers, order \in Orders :
          \E score \in calculateDriverScore(driver, order) :
             scoreCall' = [driver |-> driver, order |-> order, score |-> score]
    /\ pc' = "calculateDriverScore"
    /\ UNCHANGED <<bestCall, hubCall, orderIds, served, results, routeVars, timeCall, storeVars>>

FindBestDriver ==
    /\ pc = "idle"
    /\ \E orderLookup \in OrderLookups :
          \E poolLookup \in IF orderLookup.status = "found"
                            THEN PoolLookups ELSE {PoolNotCalled} :
             \E run \in findBestDriverRuns(orderLookup, poolLookup) :
                bestCall' = [orderLookup |-> orderLookup, poolLookup |-> poolLookup,
                             driverScores |-> run.driverScores,
                             result |-> run.result]
    /\ pc' = "findBestDriver"
    /\ UNCHANGED <<scoreCall, hubCall, orderIds, served, results, routeVars, timeCall, storeVars>>

GetOptimalHub ==
    /\ pc = "idle"
    /\ \E deliveryCoords \in DeliveryPoints :
          \E hubLookup \in {HubLookupError(m) : m \in DependencyMessages}
                           \cup {HubLookupOk(p) : p \in HubPools(HubLimit)} :
             hubCall' = [pickupCoords |-> PickupPoint,
                         deliveryCoords |-> deliveryCoords,
                         hubLookup |-> hubLookup,
                         result |-> getOptimalHub(PickupPoint, deliveryCoords, hubLookup)]
    /\ pc' = "getOptimalHub"
    /\ UNCHANGED <<scoreCall, bestCall, orderIds, served, results, routeVars, timeCall, storeVars>>

\* batchAssignOrders(orderIds) up to the first await of the loop.
BatchAssignOrders ==
    /\ pc = "idle"
    /\ \E ids \in OrderIdLists(MaxBatch) :
          /\ orderIds' = ids
          /\ results' = EmptyResults(ids)
    /\ served' = <<>>
    /\ pc' = "batchAssignOrders"
    /\ UNCHANGED <<scoreCall, bestCall, hubCall, routeVars, timeCall, storeVars>>

\* One pass of the loop: await findBestDriver(orderId), then record the outcome.
BatchIteration ==
    /\ pc = "batchAssignOrders"
    /\ Len(served) < Len(orderIds)
    /\ \E lookups \in BatchLookups :
          \E assignment \in findBestDriver(lookups[1], lookups[2]) :
             /\ served' = Append(served, [orderLookup |-> lookups[1],
                                           poolLookup |-> lookups[2],
                                           assignment |-> assignment])
             /\ results' = batchIteration(results, orderIds[Len(served) + 1], assignment)
    /\ UNCHANGED <<pc, scoreCall, bestCall, hubCall, orderIds, routeVars, timeCall, storeVars>>

\* The loop has run over every order id: return results.
BatchReturn ==
    /\ pc = "batchAssignOrders"
    /\ Len(served) = Len(orderIds)
    /\ pc' = "batchReturned"
    /\ UNCHANGED <<scoreCall, bestCall, hubCall, orderIds, served, results, routeVars, timeCall, storeVars>>

\* optimizeRoute(deliveries, startPoint): at most one delivery is answered on
\* the spot, anything longer goes to nearestNeighborOptimization, whatever side
\* of the limit its length is on.
OptimizeRoute ==
    /\ pc = "idle"
    /\ \E deliveries \in RouteInputs, startPoint \in StartPoints :
          /\ routeCall' = nearestNeighborEntry(deliveries, startPoint)
          /\ IF Len(deliveries) <= 1
             THEN /\ routeResult' \in shortRouteResults(deliveries, startPoint)
                  /\ pc' = "optimizeRoute"
             ELSE IF Len(deliveries) <= NearestNeighborLimit
             THEN /\ routeResult' = routeResult
                  /\ pc' = "nearestNeighborOptimization"
             ELSE /\ routeResult' = routeResult
                  /\ pc' = "nearestNeighborOptimization"
    /\ UNCHANGED <<serviceVars, timeCall, storeVars>>

\* One pass of the while loop of nearestNeighborOptimization.
NearestNeighborStep ==
    /\ pc = "nearestNeighborOptimization"
    /\ Len(routeCall.remaining) > 0
    /\ ~routeCall.remaining[1].isArray
    /\ routeCall' = nearestNeighborStep(routeCall)
    /\ UNCHANGED <<pc, routeResult, serviceVars, timeCall, storeVars>>

\* remaining[0].coordinates is undefined on a bare array, and calculateDistance
\* reads [1] of it: the TypeError leaves through the catch of optimizeRoute.
NearestNeighborThrow ==
    /\ pc = "nearestNeighborOptimization"
    /\ Len(routeCall.remaining) > 0
    /\ routeCall.remaining[1].isArray
    /\ routeResult' = RouteThrown(UndefinedReadMessage)
    /\ pc' = "optimizeRoute"
    /\ UNCHANGED <<routeCall, serviceVars, timeCall, storeVars>>

\* The loop has left no delivery: return the route and its totals.
NearestNeighborReturn ==
    /\ pc = "nearestNeighborOptimization"
    /\ Len(routeCall.remaining) = 0
    /\ routeResult' \in nearestNeighborResults(routeCall)
    /\ pc' = "optimizeRoute"
    /\ UNCHANGED <<routeCall, serviceVars, timeCall, storeVars>>

EstimatePickupTime ==
    /\ pc = "idle"
    /\ \E distance \in PickupDistances :
          \E minutes \in estimatePickupTime(distance) :
             timeCall' = [distance |-> distance, minutes |-> minutes]
    /\ pc' = "estimatePickupTime"
    /\ UNCHANGED <<serviceVars, routeVars, storeVars>>

\* The caller has the result; the service keeps nothing of the call.
Respond ==
    /\ pc \in {"calculateDriverScore", "findBestDriver", "getOptimalHub", "batchReturned",
               "optimizeRoute", "estimatePickupTime"}
    /\ routeCall' = NoRouteCall
    /\ routeResult' = RouteThrown("")
    /\ timeCall' = NoTimeCall
    /\ UNCHANGED storeVars
    /\ pc' = "idle"
    /\ scoreCall' = NoScoreCall
    /\ bestCall' = NoBestCall
    /\ hubCall' = NoHubCall
    /\ orderIds' = <<>>
    /\ served' = <<>>
    /\ results' = EmptyResults(<<>>)

Next ==
    \/ CalculateDriverScore
    \/ FindBestDriver
    \/ GetOptimalHub
    \/ BatchAssignOrders
    \/ BatchIteration
    \/ BatchReturn
    \/ OptimizeRoute
    \/ NearestNeighborStep
    \/ NearestNeighborThrow
    \/ NearestNeighborReturn
    \/ EstimatePickupTime
    \/ Respond

Spec == Init /\ [][Next]_vars

(***************************************************************************)
(* The life of one Hub document: created, then addOrder and completeOrder  *)
(* called on it in any order.                                              *)
(***************************************************************************)
\* POST /api/hubs: new Hub(hubData) and save().
CreateHub ==
    /\ ~hubDoc.exists
    /\ \E maxOrders \in 1..MaxHubOrders :
          /\ hubDoc' = HubDocument(maxOrders)
          /\ hubSaved' = HubDocument(maxOrders)
    /\ UNCHANGED <<pc, serviceVars, routeVars, timeCall, hubOp, appVars, docVars>>

\* What save() does with the changed document: it is written when it
\* validates, and the promise rejects, the database untouched, when not.
SaveHub(method, orderId, changed) ==
    /\ hubDoc' = changed
    /\ hubSaved' = IF HubValidates(changed) THEN changed ELSE hubSaved
    /\ hubOp' = [method |-> method, order |-> orderId, before |-> hubDoc,
                 outcome |-> IF HubValidates(changed) THEN "saved" ELSE "rejected"]

AddOrder ==
    /\ hubDoc.exists
    /\ Len(hubDoc.currentOrders) < MaxHubEntries
    /\ \E orderId \in OrderIds :
          IF addOrderThrows(hubDoc)
          THEN /\ hubOp' = [method |-> "addOrder", order |-> orderId,
                            before |-> hubDoc, outcome |-> "threw"]
               /\ UNCHANGED <<hubDoc, hubSaved>>
          ELSE SaveHub("addOrder", orderId, addOrder(hubDoc, orderId))
    /\ UNCHANGED <<pc, serviceVars, routeVars, timeCall, appVars, docVars>>

CompleteOrder ==
    /\ hubDoc.exists
    /\ hubDoc.totalProcessed < MaxProcessed
    /\ \E orderId \in OrderIds :
          SaveHub("completeOrder", orderId, completeOrder(hubDoc, orderId))
    /\ UNCHANGED <<pc, serviceVars, routeVars, timeCall, appVars, docVars>>

HubNext ==
    \/ CreateHub
    \/ AddOrder
    \/ CompleteOrder

HubSpec == Init /\ [][HubNext]_vars

(***************************************************************************)
(* The API: one order, and requests served one at a time through the       *)
(* middleware chain of their route.                                        *)
(***************************************************************************)
\* An order as createOrder, the seed script and the other handlers store it,
\* in any status of the schema.
StoreOrder ==
    /\ request.stage = "none"
    /\ ~orderDoc.exists
    /\ \E status \in OrderStatuses : orderDoc' = OrderDocument(status, "merchant1")
    /\ UNCHANGED <<pc, serviceVars, routeVars, timeCall, hubVars, docVars, request>>

\* A request arrives for a protected route.
ReceiveRequest ==
    /\ request.stage = "none"
    /\ \E route \in Routes, header \in Headers :
          \E id \in IF route = "GET /api/auth/me" THEN {""} ELSE {"o1", "o9"},
             status \in IF route = "PUT /api/orders/:id/status"
                        THEN OrderStatuses ELSE {""} :
             request' = [NoRequest EXCEPT !.stage = "authenticate", !.route = route,
                                          !.header = header, !.id = id,
                                          !.status = status, !.before = orderDoc]
    /\ UNCHANGED <<pc, serviceVars, routeVars, timeCall, hubVars, docVars, orderDoc>>

\* The step of the chain a middleware hands over to with next().
NextOf(route, stage) ==
    CASE route = "GET /api/auth/me" /\ stage = "authenticate" -> "getMe"
      [] route = "PUT /api/orders/:id/status" /\ stage = "authenticate" -> "authorize"
      [] route = "PUT /api/orders/:id/status" /\ stage = "authorize" ->
            "updateOrderStatus"
      [] route = "DELETE /api/orders/:id" /\ stage = "authenticate" -> "cancelOrder"

Chain(after) ==
    [after EXCEPT !.reached = Append(request.reached, request.stage),
                  !.stage = IF after.stage = "next"
                            THEN NextOf(request.route, request.stage) ELSE @]

Authenticate ==
    /\ request.stage = "authenticate"
    /\ request' = Chain(authenticate(request))
    /\ UNCHANGED <<pc, serviceVars, routeVars, timeCall, hubVars, docVars, orderDoc>>

Authorize ==
    /\ request.stage = "authorize"
    /\ request' = Chain(authorize({"admin", "driver"}, request))
    /\ UNCHANGED <<pc, serviceVars, routeVars, timeCall, hubVars, docVars, orderDoc>>

\* getMe is reached; what it answers is the controller's business.
GetMe ==
    /\ request.stage = "getMe"
    /\ request' = Chain([request EXCEPT !.stage = "responded"])
    /\ UNCHANGED <<pc, serviceVars, routeVars, timeCall, hubVars, docVars, orderDoc>>

UpdateOrderStatus ==
    /\ request.stage = "updateOrderStatus"
    /\ LET done == updateOrderStatus(request, orderDoc)
       IN  /\ orderDoc' = done.order
           /\ request' = Chain([request EXCEPT !.response = done.response,
                                               !.stage = "responded"])
    /\ UNCHANGED <<pc, serviceVars, routeVars, timeCall, hubVars, docVars>>

CancelOrder ==
    /\ request.stage = "cancelOrder"
    /\ LET done == cancelOrder(request, orderDoc)
       IN  /\ orderDoc' = done.order
           /\ request' = Chain([request EXCEPT !.response = done.response,
                                               !.stage = "responded"])
    /\ UNCHANGED <<pc, serviceVars, routeVars, timeCall, hubVars, docVars>>

\* The response has left: the next request can come.
EndRequest ==
    /\ request.stage = "responded"
    /\ request' = NoRequest
    /\ UNCHANGED <<pc, serviceVars, routeVars, timeCall, hubVars, docVars, orderDoc>>

AppNext ==
    \/ StoreOrder
    \/ ReceiveRequest
    \/ Authenticate
    \/ Authorize
    \/ GetMe
    \/ UpdateOrderStatus
    \/ CancelOrder
    \/ EndRequest

AppSpec == Init /\ [][AppNext]_vars

(***************************************************************************)
(* The life of one Order document: stored, then changed through the model's *)
(* methods and the routes that assign a driver.                            *)
(***************************************************************************)
\* The Driver documents a request can name.
DriverDocIds == {"d1", "d2"}

\* save() resolved: the database holds the changed document.
SaveOrder(method, result, changed) ==
    /\ orderDoc' = changed
    /\ orderOp' = [method |-> method, result |-> result, before |-> orderDoc,
                   outcome |-> "saved"]

\* The call ended without a save: refused by the handler, or rejected by the
\* validation of save().
LeaveOrder(method, result, outcome) ==
    /\ orderOp' = [method |-> method, result |-> result, before |-> orderDoc,
                   outcome |-> outcome]
    /\ UNCHANGED orderDoc

\* order.updateStatus(status, notes, userId), as PATCH /api/orders/:id/status
\* calls it for an admin.
UpdateStatus ==
    /\ orderDoc.exists
    /\ Len(orderDoc.statusHistory) < MaxStatusHistory
    /\ \E newStatus \in OrderStatuses :
          SaveOrder("updateStatus", newStatus,
                    updateStatus(orderDoc, newStatus, "admin1"))
    /\ UNCHANGED <<pc, serviceVars, routeVars, timeCall, hubVars, request, driverVars>>

\* order.addDeliveryAttempt(result, ...), as POST /:id/delivery-attempt calls
\* it with the result of the request body.
AddDeliveryAttempt ==
    /\ orderDoc.exists
    /\ Len(orderDoc.statusHistory) < MaxStatusHistory
    /\ Len(orderDoc.deliveryAttempts) < MaxDeliveryAttempts
    /\ \E result \in AttemptResults \cup {"undefined"} :
          IF result \in AttemptResults
          THEN SaveOrder("addDeliveryAttempt", result,
                         addDeliveryAttempt(orderDoc, result, "admin1"))
          ELSE LeaveOrder("addDeliveryAttempt", result, "rejected")
    /\ UNCHANGED <<pc, serviceVars, routeVars, timeCall, hubVars, request, driverVars>>

AssignDriver ==
    /\ orderDoc.exists
    /\ Len(orderDoc.statusHistory) < MaxStatusHistory
    /\ \E driverId \in DriverDocIds :
          SaveOrder("assign-driver", driverId,
                    assignDriver(orderDoc, driverId, "admin1"))
    /\ UNCHANGED <<pc, serviceVars, routeVars, timeCall, hubVars, request, driverVars>>

AcceptOrder ==
    /\ orderDoc.exists
    /\ Len(orderDoc.statusHistory) < MaxStatusHistory
    /\ \E driverId \in DriverDocIds :
          IF acceptOrderRefused(orderDoc, driverId)
          THEN LeaveOrder("accept-order", driverId, "refused")
          ELSE SaveOrder("accept-order", driverId, acceptOrder(orderDoc, driverId))
    /\ UNCHANGED <<pc, serviceVars, routeVars, timeCall, hubVars, request, driverVars>>

OrderNext ==
    \/ StoreOrder
    \/ UpdateStatus
    \/ AddDeliveryAttempt
    \/ AssignDriver
    \/ AcceptOrder

OrderSpec == Init /\ [][OrderNext]_vars

(***************************************************************************)
(* The life of one Driver document: created, its status set through the    *)
(* API, assignOrder and completeDelivery called on it in any order.        *)
(***************************************************************************)
CreateDriver ==
    /\ ~driverDoc.exists
    /\ \E maxDeliveries \in 1..MaxDriverDeliveries :
          driverDoc' = DriverDocument(maxDeliveries)
    /\ UNCHANGED <<pc, serviceVars, routeVars, timeCall, hubVars, appVars, orderOp,
                   driverOp>>

\* PATCH /api/drivers/:id/status: findByIdAndUpdate(driverId, { status }).
PatchDriverStatus ==
    /\ driverDoc.exists
    /\ \E status \in DriverStatuses :
          /\ driverDoc' = [driverDoc EXCEPT !.status = status]
          /\ driverOp' = [method |-> "PATCH status", order |-> "",
                          before |-> driverDoc, outcome |-> "saved"]
    /\ UNCHANGED <<pc, serviceVars, routeVars, timeCall, hubVars, appVars, orderOp>>

AssignOrder ==
    /\ driverDoc.exists
    /\ \E orderId \in DeliveryIds :
          /\ driverDoc' = IF assignOrderThrows(driverDoc) THEN driverDoc
                          ELSE assignOrder(driverDoc, orderId)
          /\ driverOp' = [method |-> "assignOrder", order |-> orderId,
                          before |-> driverDoc,
                          outcome |-> IF assignOrderThrows(driverDoc)
                                      THEN "threw" ELSE "saved"]
    /\ UNCHANGED <<pc, serviceVars, routeVars, timeCall, hubVars, appVars, orderOp>>

CompleteDelivery ==
    /\ driverDoc.exists
    /\ driverDoc.totalDeliveries < MaxCountedDeliveries
    /\ \E orderId \in DeliveryIds, successful \in BOOLEAN :
          /\ driverDoc' = completeDelivery(driverDoc, orderId, successful)
          /\ driverOp' = [method |-> "completeDelivery", order |-> orderId,
                          before |-> driverDoc, outcome |-> "saved"]
    /\ UNCHANGED <<pc, serviceVars, routeVars, timeCall, hubVars, appVars, orderOp>>

DriverNext ==
    \/ CreateDriver
    \/ PatchDriverStatus
    \/ AssignOrder
    \/ CompleteDelivery

DriverSpec == Init /\ [][DriverNext]_vars

(***************************************************************************)
(* Helpers of the properties.                                              *)
(***************************************************************************)
\* a >= b on JavaScript numbers: false as soon as one of them is NaN.
ScoreGeq(a, b) == ~a.nan /\ ~b.nan /\ a.value >= b.value

\* The number of entries of the list whose orderId is id.
RECURSIVE CountOf(_, _)
CountOf(id, entries) ==
    IF entries = <<>> THEN 0
    ELSE (IF Head(entries).orderId = id THEN 1 ELSE 0) + CountOf(id, Tail(entries))

RECURSIVE CountIn(_, _)
CountIn(id, ids) ==
    IF ids = <<>> THEN 0
    ELSE (IF Head(ids) = id THEN 1 ELSE 0) + CountIn(id, Tail(ids))

InBatch == pc \in {"batchAssignOrders", "batchReturned"}

\* The i-th order processed ended in results.failed.
WentToFailed(i) ==
    \/ served[i].assignment.kind = "throw"
    \/ ~served[i].assignment.success
    \/ served[i].assignment.driver.user = <<>>

\* The entry of results.failed recorded for the i-th order processed.
FailedEntryOf(i) ==
    results.failed[Cardinality({j \in 1..i : WentToFailed(j)})]

\* A lookup of the i-th order processed failed: the order lookup threw or found
\* nothing, or the candidate-pool lookup threw.
LookupFailed(orderLookup, poolLookup) ==
    \/ orderLookup.status \in {"error", "null"}
    \/ poolLookup.status = "error"

(***************************************************************************)
(* C1.  batchAssignOrders accounts for every order id exactly once: each   *)
(* order id processed so far appears as many times in successful and       *)
(* failed together as it appears in the processed part of orderIds, the    *)
(* summary counts the two lists, a failed order never disables the next    *)
(* pass, and the call returns only when every order id has been processed. *)
(***************************************************************************)
BatchAccountsForEveryOrder ==
    InBatch =>
        /\ Len(results.successful) + Len(results.failed) = Len(served)
        /\ \A id \in OrderIds :
              CountOf(id, results.successful) + CountOf(id, results.failed)
                  = CountIn(id, SubSeq(orderIds, 1, Len(served)))
        /\ results.summary.total = Len(orderIds)
        /\ results.summary.assigned = Len(results.successful)
        /\ results.summary.unassigned = Len(results.failed)
        /\ (pc = "batchAssignOrders" /\ Len(served) < Len(orderIds)
               => ENABLED BatchIteration)
        /\ (pc = "batchReturned" =>
               /\ Len(served) = Len(orderIds)
               /\ results.summary.assigned + results.summary.unassigned
                     = Len(orderIds))

\* A batch has returned in which one order's lookup threw, a later order was
\* not found or met an empty pool, and an order after both was assigned.
BatchSurvivedFailures ==
    /\ pc = "batchReturned"
    /\ \E i, j, k \in 1..Len(served) :
          /\ i < j /\ j < k
          /\ served[i].assignment.kind = "throw"
          /\ served[i].orderLookup.status = "error"
          /\ \/ served[j].orderLookup.status = "null"
             \/ served[j].poolLookup.status = "ok" /\ served[j].poolLookup.pool = <<>>
          /\ ~WentToFailed(k)
          /\ results.successful[Len(results.successful)].orderId = orderIds[k]
    /\ Len(results.failed) >= 2

(***************************************************************************)
(* Helpers of the findBestDriver properties.                               *)
(***************************************************************************)
\* findBestDriver has ended on a pool of at least one candidate.
RankedAPool ==
    /\ pc = "findBestDriver"
    /\ bestCall.poolLookup.status = "ok"
    /\ Len(bestCall.poolLookup.pool) > 0

(***************************************************************************)
(* C2.  On a non-empty pool findBestDriver succeeds, the score of the      *)
(* driver it returns is greater than or equal to the score of every other  *)
(* candidate, and alternatives holds exactly min(2, n - 1) candidates, the *)
(* ones ranked second and third by descending score, none of them the      *)
(* best driver.                                                            *)
(***************************************************************************)
BestDriverHasTopScore ==
    RankedAPool =>
        LET ranked == bestCall.driverScores
            result == bestCall.result
            n == Len(bestCall.poolLookup.pool)
        IN  /\ result.kind = "return" /\ result.success
            /\ Len(ranked) = n
            /\ \A i \in 1..n : ScoreGeq(result.score, ranked[i].score)
            /\ Len(result.alternatives) = Min(2, n - 1)
            /\ \A i \in 1..Len(result.alternatives) :
                  /\ result.alternatives[i].driver.id # result.driver.id
                  /\ ScoreGeq(result.score, result.alternatives[i].score)
                  /\ \A j \in 1..n :
                        ranked[j].driver.id \notin
                            {result.driver.id} \cup
                            {result.alternatives[k].driver.id : k \in 1..i}
                        => ScoreGeq(result.alternatives[i].score, ranked[j].score)

\* The same statement on the pools in which every candidate can take at least
\* one delivery.
BestDriverHasTopScoreOnValidPools ==
    (RankedAPool /\ \A i \in 1..Len(bestCall.poolLookup.pool) :
                       bestCall.poolLookup.pool[i].maxDeliveries >= 1)
        => BestDriverHasTopScore

(***************************************************************************)
(* C3.  Two candidates of equal score are ranked nearest first: the one    *)
(* ranked before the other is not farther from the pickup point.           *)
(***************************************************************************)
TiesRankNearestFirst ==
    RankedAPool =>
        \A i, j \in 1..Len(bestCall.driverScores) :
            (/\ i < j
             /\ ~bestCall.driverScores[i].score.nan
             /\ ~bestCall.driverScores[j].score.nan
             /\ bestCall.driverScores[i].score.value = bestCall.driverScores[j].score.value)
            => bestCall.driverScores[i].distance <= bestCall.driverScores[j].distance

(***************************************************************************)
(* C4.  An empty candidate pool makes findBestDriver, and an empty hub     *)
(* pool makes getOptimalHub, return a value with success = false and a     *)
(* message; neither throws.                                                *)
(***************************************************************************)
EmptyPoolIsAResult ==
    /\ (/\ pc = "findBestDriver"
        /\ bestCall.poolLookup.status = "ok"
        /\ bestCall.poolLookup.pool = <<>>)
       => /\ bestCall.result.kind = "return"
          /\ ~bestCall.result.success
          /\ bestCall.result.message = NoDriversMessage
    /\ (/\ pc = "getOptimalHub"
        /\ hubCall.hubLookup.status = "ok"
        /\ hubCall.hubLookup.pool = <<>>)
       => /\ hubCall.result.kind = "return"
          /\ ~hubCall.result.success
          /\ hubCall.result.message = NoHubsMessage

\* findBestDriver has ended on an order it found and an empty pool.
EmptyDriverPoolServed ==
    /\ pc = "findBestDriver"
    /\ bestCall.orderLookup.status = "found"
    /\ bestCall.poolLookup.status = "ok"
    /\ bestCall.poolLookup.pool = <<>>
    /\ bestCall.result.kind = "return"

(***************************************************************************)
(* C5.  A failed order lookup or candidate-pool lookup is reported apart   *)
(* from "no candidates found": findBestDriver does not yield the           *)
(* no-candidates result for it, and the entry batchAssignOrders records    *)
(* for the order differs from the entry it records for an order without    *)
(* candidates.                                                             *)
(***************************************************************************)
LookupFailureIsNotNoCandidates ==
    /\ (pc = "findBestDriver"
           /\ LookupFailed(bestCall.orderLookup, bestCall.poolLookup))
       => bestCall.result # NoDriversFound
    /\ InBatch =>
          \A i \in 1..Len(served) :
              LookupFailed(served[i].orderLookup, served[i].poolLookup)
              => FailedEntryOf(i) # [orderId |-> orderIds[i], reason |-> NoDriversMessage]

(***************************************************************************)
(* C6.  calculateDriverScore returns an integer from 0 to 100 for every    *)
(* driver that can take at least one delivery.                             *)
(***************************************************************************)
ScoreWithinZeroToHundred ==
    (pc = "calculateDriverScore" /\ scoreCall.driver.maxDeliveries >= 1)
        => /\ ~scoreCall.score.nan
           /\ scoreCall.score.value \in 0..100

(***************************************************************************)
(* C7.  The success rate that enters the score is the driver's historical  *)
(* success rate whenever the driver has delivery history, a rate of 0      *)
(* included, and 100 only for a driver without history.                    *)
(***************************************************************************)
SuccessRateUsedDirectly ==
    pc = "calculateDriverScore" =>
        LET used == successRateOrDefault(scoreCall.driver)
            rate == successRate(scoreCall.driver)
        IN  IF scoreCall.driver.totalDeliveries > 0
            THEN used[1] * rate[2] = rate[1] * used[2]
            ELSE used = <<100, 1>>

(***************************************************************************)
(* C8.  A candidate whose maxDeliveries is 0 is rejected: it is neither    *)
(* the best driver nor an alternative, and no NaN score is ranked.         *)
(***************************************************************************)
ZeroCapacityDriverIsRejected ==
    (pc = "findBestDriver" /\ bestCall.result.kind = "return"
        /\ bestCall.result.success)
    => /\ bestCall.result.driver.maxDeliveries # 0
       /\ \A i \in 1..Len(bestCall.result.alternatives) :
             bestCall.result.alternatives[i].driver.maxDeliveries # 0
       /\ \A i \in 1..Len(bestCall.driverScores) :
             ~bestCall.driverScores[i].score.nan

(***************************************************************************)
(* C9.  When the order weighs more than the vehicle can carry, the vehicle *)
(* compatibility is 0 for every vehicle type, fragile item or not, and the *)
(* score returned is the rounded sum of the four other weighted            *)
(* components (NaN when the capacity component is NaN).                    *)
(***************************************************************************)
OverweightVehicleScoresZero ==
    (pc = "calculateDriverScore"
        /\ totalWeight(scoreCall.order) > scoreCall.driver.vehicle.capacityWeight)
    => LET driver == scoreCall.driver
           order == scoreCall.order
           m == driver.maxDeliveries
           sr == successRateOrDefault(driver)
       IN  /\ getVehicleCompatibilityScore(driver.vehicle, order) = 0
           /\ IF m = 0 THEN scoreCall.score.nan
              ELSE /\ ~scoreCall.score.nan
                   /\ scoreCall.score.value \in
                        MathRound(  40 * distanceScore(driver, order) * m * sr[2]
                                  + 25 * ratingScore(driver) * 1000 * m * sr[2]
                                  + 20 * capacityScore(driver) * 1000 * sr[2]
                                  + 5 * sr[1] * 1000 * m,
                                  100 * 1000 * m * sr[2])

\* A car too small for an order with a fragile item has been scored, and the
\* other components gave it a positive score.
OverweightFragileScored ==
    /\ pc = "calculateDriverScore"
    /\ totalWeight(scoreCall.order) > scoreCall.driver.vehicle.capacityWeight
    /\ scoreCall.driver.vehicle.type = "car"
    /\ \E i \in 1..Len(scoreCall.order.items) : scoreCall.order.items[i].isFragile
    /\ ~scoreCall.score.nan
    /\ scoreCall.score.value > 0

(***************************************************************************)
(* C10.  A driver at the pickup point with rating 5.0, no active delivery, *)
(* a vehicle compatibility of 100 (weight utilisation at most 0.8, no      *)
(* fragile item) and a success rate of 100 is scored exactly 100.          *)
(***************************************************************************)
PerfectDriver(driver, order) ==
    /\ calculateDistance(driver.currentLocation, order.pickupCoordinates) = 0
    /\ driver.ratingAverage = 50
    /\ driver.maxDeliveries >= 1
    /\ driver.activeDeliveries = 0
    /\ 10 * totalWeight(order) <= 8 * driver.vehicle.capacityWeight
    /\ \A i \in 1..Len(order.items) : ~order.items[i].isFragile
    /\ successRate(driver)[1] = 100 * successRate(driver)[2]

PerfectDriverScoresHundred ==
    (pc = "calculateDriverScore" /\ PerfectDriver(scoreCall.driver, scoreCall.order))
        => scoreCall.score = Num(100)

\* A perfect driver with delivery history has been scored.
PerfectDriverScored ==
    /\ pc = "calculateDriverScore"
    /\ PerfectDriver(scoreCall.driver, scoreCall.order)
    /\ scoreCall.driver.totalDeliveries > 0
    /\ scoreCall.driver.vehicle.type = "motorcycle"

(***************************************************************************)
(* RouteSequencer properties.                                              *)
(***************************************************************************)
\* The number of positions of the list s that hold e.
RECURSIVE Occurrences(_, _)
Occurrences(e, s) ==
    IF s = <<>> THEN 0
    ELSE (IF Head(s) = e THEN 1 ELSE 0) + Occurrences(e, Tail(s))

Range(s) == {s[i] : i \in 1..Len(s)}

RouteReturnedToCaller == pc = "optimizeRoute" /\ routeResult.kind = "return"

\* C11: whatever the length of the input (none, one, up to ten, more than ten
\* stops, stops at equal coordinates or the same stop twice) and the start
\* point, a route optimizeRoute returns has the length of the input list and
\* holds every stop as many times as the input list does.
RouteIsAPermutation ==
    RouteReturnedToCaller =>
        /\ Len(routeResult.route) = Len(routeCall.deliveries)
        /\ \A d \in Range(routeCall.deliveries) \cup Range(routeResult.route) :
              Occurrences(d, routeResult.route) = Occurrences(d, routeCall.deliveries)

\* Witness of C11: a route of more than ten stops, with stops repeated, was
\* returned in an order that is not the input order.
LongRouteReordered ==
    /\ RouteReturnedToCaller
    /\ Len(routeResult.route) > NearestNeighborLimit
    /\ routeResult.route # routeCall.deliveries
    /\ \E d \in Range(routeCall.deliveries) : Occurrences(d, routeCall.deliveries) > 1

\* C12: each pass of the loop appends an unvisited stop at minimum distance
\* from the current position, the first such stop of the unvisited ones (which
\* are kept in input order), removes it from the unvisited ones and moves the
\* current position to it.
NearestUnvisitedIsAppended ==
    [][(pc = "nearestNeighborOptimization"
          /\ Len(routeCall'.route) = Len(routeCall.route) + 1) =>
        \E i \in 1..Len(routeCall.remaining) :
            LET chosen == routeCall.remaining[i]
                d(k) == calculateDistance(routeCall.currentPoint,
                                          routeCall.remaining[k].coordinates)
            IN  /\ routeCall'.route = Append(routeCall.route, chosen)
                /\ \A k \in 1..Len(routeCall.remaining) : d(i) <= d(k)
                /\ \A k \in 1..(i - 1) : d(i) < d(k)
                /\ routeCall'.remaining =
                      [k \in 1..(Len(routeCall.remaining) - 1) |->
                          IF k < i THEN routeCall.remaining[k]
                          ELSE routeCall.remaining[k + 1]]
                /\ routeCall'.currentPoint = chosen.coordinates]_vars

\* Witness of C12: from C, at 5 degrees north, A (at 0) and B (at 10 degrees)
\* are equally far; B comes first in the input and was appended, A remains.
TieWentToFirstInInput ==
    /\ pc = "nearestNeighborOptimization"
    /\ routeCall.deliveries = <<StopB, StopC, StopA>>
    /\ routeCall.startPoint = <<0, 5000>>
    /\ routeCall.route = <<StopC, StopB>>

\* C13: for a single delivery object, optimizeRoute returns that one stop with
\* totalDistance the distance from the start point to the stop's coordinates.
SingleStopDistanceIsFromStart ==
    (pc = "optimizeRoute" /\ Len(routeCall.deliveries) = 1
        /\ ~routeCall.deliveries[1].isArray) =>
        /\ routeResult.kind = "return"
        /\ routeResult.route = routeCall.deliveries
        /\ routeResult.totalDistance =
              Num(calculateDistance(routeCall.startPoint,
                                    routeCall.deliveries[1].coordinates))

ScenarioServed ==
    /\ pc = "optimizeRoute"
    /\ routeCall.deliveries = <<StopA, StopB, StopC>>
    /\ routeCall.startPoint = <<0, 0>>

\* C14 as stated: for the stops A (0,0), B (0,10), C (0,5) in that order and
\* the start (0,0), the resulting order is [C, B].
ScenarioOrderIsCB ==
    ScenarioServed =>
        routeResult.kind = "return" /\ routeResult.route = <<StopC, StopB>>

\* C14 as amended: for the stops A (0,0), B (0,10), C (0,5) in that order and
\* the start (0,0), A is visited first, C before B: the order is [A, C, B].
ScenarioOrderIsACB ==
    ScenarioServed =>
        routeResult.kind = "return" /\ routeResult.route = <<StopA, StopC, StopB>>

\* Witness of C14: the scenario was sequenced and its route returned.
ScenarioRouteReturned == ScenarioServed /\ routeResult.kind = "return"

(***************************************************************************)
(* HubSelector properties.                                                 *)
(***************************************************************************)
\* score is 0.7 x distanceScore + 0.3 x capacityScore of hub, for the points of
\* the call: distanceScore = max(0, 100 - 3 x average distance in km) and
\* capacityScore = 100 x free places / maxOrders, over the common denominator
\* 20000 x maxOrders.
IsTotalScoreOf(score, hub) ==
    LET toPickup == calculateDistance(hub.coordinates, hubCall.pickupCoords)
        toDelivery == calculateDistance(hub.coordinates, hubCall.deliveryCoords)
        distance2000 == IF 3 * (toPickup + toDelivery) >= 200000 THEN 0
                        ELSE 200000 - 3 * (toPickup + toDelivery)
    IN  /\ score[2] = 20000 * hub.maxOrders
        /\ score[1] = 7 * distance2000 * hub.maxOrders
                        + 3 * 200000 * (hub.maxOrders - hub.currentLoad)

HubsRanked == pc = "getOptimalHub" /\ hubCall.result.success

\* C15: on a non-empty list of candidate hubs (a single one included),
\* getOptimalHub recommends a candidate whose totalScore no candidate exceeds,
\* and its alternatives are the next-ranked candidates, in descending order of
\* totalScore, two of them at most.
BestHubHasTopScore ==
    HubsRanked =>
        LET pool == hubCall.hubLookup.pool
            result == hubCall.result
            ranked == <<[hub |-> result.recommendedHub, score |-> result.score]>>
                          \o result.alternatives
        IN  /\ Len(result.alternatives) = Min(2, Len(pool) - 1)
            /\ \A i \in 1..Len(ranked) :
                  /\ ranked[i].hub \in Range(pool)
                  /\ IsTotalScoreOf(ranked[i].score, ranked[i].hub)
                  /\ \A j \in 1..Len(ranked) :
                        /\ i < j => RationalGeq(ranked[i].score, ranked[j].score)
                        /\ i # j => ranked[i].hub # ranked[j].hub
                  /\ \A h \in Range(pool) \ {ranked[k].hub : k \in 1..Len(ranked)} :
                        \E score \in {hubScore(h, hubCall.pickupCoords,
                                               hubCall.deliveryCoords)} :
                           /\ IsTotalScoreOf(score, h)
                           /\ RationalGeq(ranked[i].score, score)

\* Witness of C15: four candidates of four different scores, the best one
\* listed last by the lookup; two alternatives are returned and one hub is not.
BestOfFourHubsWasListedLast ==
    /\ HubsRanked
    /\ Len(hubCall.hubLookup.pool) = 4
    /\ hubCall.result.recommendedHub = hubCall.hubLookup.pool[4]
    /\ Len(hubCall.result.alternatives) = 2
    /\ ~RationalGeq(hubCall.result.alternatives[1].score, hubCall.result.score)
    /\ ~RationalGeq(hubCall.result.alternatives[2].score,
                    hubCall.result.alternatives[1].score)
    /\ \E h \in Range(hubCall.hubLookup.pool) :
          /\ h # hubCall.result.recommendedHub
          /\ \A k \in 1..2 : h # hubCall.result.alternatives[k].hub
          /\ ~RationalGeq(hubScore(h, hubCall.pickupCoords, hubCall.deliveryCoords),
                          hubCall.result.alternatives[2].score)

\* Witness of the single-candidate case of C15: one far, half-full hub is
\* recommended with a score below 100 and no alternative.
OnlyHubRecommended ==
    /\ HubsRanked
    /\ Len(hubCall.hubLookup.pool) = 1
    /\ hubCall.result.recommendedHub = hubCall.hubLookup.pool[1]
    /\ hubCall.result.alternatives = <<>>
    /\ hubCall.result.score[1] < 100 * hubCall.result.score[2]

(***************************************************************************)
(* Frame of the service.  The service reaches the data layer through       *)
(* Order.findById, Driver.findAvailableDrivers and Hub.findAvailableHubs    *)
(* only; the documents and the list it is handed are the state it could    *)
(* change.                                                                 *)
(***************************************************************************)
\* Every driver a findBestDriver result names is a document of the pool, with
\* the activeDeliveries and every other field the lookup gave it.
DriversAsLookedUp(result, pool) ==
    result.success =>
        /\ result.driver \in Range(pool)
        /\ \A i \in 1..Len(result.alternatives) :
              result.alternatives[i].driver \in Range(pool)

DocumentsAsLookedUp ==
    /\ pc = "findBestDriver" =>
          DriversAsLookedUp(bestCall.result, bestCall.poolLookup.pool)
    /\ \A i \in 1..Len(served) :
          DriversAsLookedUp(served[i].assignment, served[i].poolLookup.pool)
    /\ (pc = "getOptimalHub" /\ hubCall.result.success) =>
          /\ hubCall.result.recommendedHub \in Range(hubCall.hubLookup.pool)
          /\ \A i \in 1..Len(hubCall.result.alternatives) :
                hubCall.result.alternatives[i].hub \in Range(hubCall.hubLookup.pool)

\* C16: findBestDriver, batchAssignOrders, getOptimalHub and optimizeRoute are
\* read-only: the driver and hub documents they rank come back as the lookups
\* supplied them (activeDeliveries, status and currentLoad included), and the
\* caller's list of stops is the same list at every step of the sequencing.
ServiceIsReadOnly ==
    /\ []DocumentsAsLookedUp
    /\ [][pc = "nearestNeighborOptimization" =>
            routeCall'.deliveries = routeCall.deliveries]_vars

\* Witness of C16: two of three stops have been spliced out of the working copy
\* and the caller's list still holds the three.
StopsSplicedFromTheCopy ==
    /\ pc = "nearestNeighborOptimization"
    /\ Len(routeCall.deliveries) = 3
    /\ Len(routeCall.remaining) = 1
    /\ Len(routeCall.route) = 2

(***************************************************************************)
(* estimatePickupTime properties.                                          *)
(***************************************************************************)
\* C18: for a distance d >= 0, estimatePickupTime(d) is d / 30 x 60 + 10 rounded
\* to a whole number of minutes, that is (d + 5000) / 500 with d in metres,
\* within half a minute; it is 40 for 15 km and 10 for 0 km.
PickupTimeIsRoundedTravelPlusBase ==
    pc = "estimatePickupTime" =>
        /\ 2 * Abs(500 * timeCall.minutes - (timeCall.distance + 5000)) <= 500
        /\ timeCall.distance = 15000 => timeCall.minutes = 40
        /\ timeCall.distance = 0 => timeCall.minutes = 10

\* Witness of C18: the time for 15 km was estimated.
FifteenKilometresEstimated ==
    pc = "estimatePickupTime" /\ timeCall.distance = 15000 /\ timeCall.minutes = 40

(***************************************************************************)
(* Hub document properties.                                                *)
(***************************************************************************)
\* The call asked for something the hub cannot do: completeOrder for an order
\* that is not in the hub, or addOrder on a full hub.
HubCallOutOfPlace ==
    \/ /\ hubOp.method = "completeOrder"
       /\ \A i \in 1..Len(hubOp.before.currentOrders) :
             hubOp.before.currentOrders[i].order # hubOp.order
    \/ /\ hubOp.method = "addOrder"
       /\ hubOp.before.currentLoad >= hubOp.before.maxOrders

\* C17: after any sequence of addOrder and completeOrder calls on a hub that
\* started with load 0 and no current orders, the hub the database holds has
\* 0 <= currentLoad <= maxOrders and currentLoad entries in currentOrders; a
\* completeOrder for an order that is not in the hub, and an addOrder on a
\* full hub, fail and leave that hub as it was.
HubLoadCountsCurrentOrders ==
    hubSaved.exists =>
        /\ 0 <= hubSaved.currentLoad
        /\ hubSaved.currentLoad <= hubSaved.maxOrders
        /\ hubSaved.currentLoad = Len(hubSaved.currentOrders)
        /\ HubCallOutOfPlace =>
              /\ hubOp.outcome \in {"threw", "rejected"}
              /\ hubSaved.currentLoad = hubOp.before.currentLoad
              /\ hubSaved.currentOrders = hubOp.before.currentOrders

\* The part of C17 the code keeps: the stored load stays within 0..maxOrders,
\* and addOrder on a full hub throws and changes nothing.
HubLoadWithinCapacity ==
    hubSaved.exists =>
        /\ 0 <= hubSaved.currentLoad
        /\ hubSaved.currentLoad <= hubSaved.maxOrders
        /\ (hubOp.method = "addOrder"
              /\ hubOp.before.currentLoad >= hubOp.before.maxOrders) =>
              hubOp.outcome = "threw" /\ hubDoc = hubOp.before

(***************************************************************************)
(* API properties.                                                         *)
(***************************************************************************)
\* The request carries "Bearer " followed by a token that verifies.
CarriesVerifiedToken ==
    /\ request.header.present
    /\ request.header.prefix = "Bearer "
    /\ request.header.token \in SignedTokens

\* C19: a request to a protected route without an Authorization header, with a
\* header that does not start with "Bearer ", or with a token that fails
\* verification goes no further than authenticate and is answered 401, so no
\* handler of the route runs and the order stays as it was; req.user is set
\* only once the token has verified, to what the token says.
ProtectedRouteNeedsVerifiedToken ==
    request.stage # "none" =>
        /\ ~CarriesVerifiedToken =>
              /\ request.stage \in {"authenticate", "responded"}
              /\ \A i \in 1..Len(request.reached) : request.reached[i] = "authenticate"
              /\ request.stage = "responded" => request.response = 401
              /\ orderDoc = request.before
        /\ request.user # NoUser =>
              /\ CarriesVerifiedToken
              /\ request.reached # <<>>
              /\ request.user = jwtVerify(request.header.token)
        /\ request.reached = <<>> => request.user = NoUser

\* Witness of C19: the status route answered 401 to "Bearer
\* invalid-token-12345" for a transition the order's status allows.
InvalidTokenAnswered401 ==
    /\ request.stage = "responded"
    /\ request.route = "PUT /api/orders/:id/status"
    /\ request.header.prefix = "Bearer "
    /\ request.header.token = "invalid-token-12345"
    /\ request.response = 401
    /\ request.id = "o1"
    /\ orderDoc.exists
    /\ request.status \in validTransitions(orderDoc.status)

\* updateOrderStatus has answered a request for the stored order.
StatusRequestHandled ==
    /\ request.stage = "responded"
    /\ request.reached # <<>>
    /\ request.reached[Len(request.reached)] = "updateOrderStatus"
    /\ request.before.exists
    /\ request.id = "o1"

\* C20: updateOrderStatus accepts a request for status t on an order in status
\* s only if validTransitions[s] lists t; any other request (on an order that
\* is returned, cancelled or refunded, or with t = s, among them) is answered
\* 400 and leaves status, statusHistory and deliveryAttempts as they were.
StatusChangeNeedsListedTransition ==
    StatusRequestHandled =>
        LET s == request.before.status
            t == request.status
            refused == /\ request.response = 400
                       /\ orderDoc.status = request.before.status
                       /\ orderDoc.statusHistory = request.before.statusHistory
                       /\ orderDoc.deliveryAttempts = request.before.deliveryAttempts
        IN  /\ request.response = 200 => t \in validTransitions(s)
            /\ t \notin validTransitions(s) => refused
            /\ s \in {"returned", "cancelled", "refunded"} => refused
            /\ t = s => refused

\* Witness of C20: an order delivered through the handler was asked to become
\* delivered again; the request was refused.
RepeatedDeliveredRefused ==
    /\ StatusRequestHandled
    /\ request.status = "delivered"
    /\ request.before.status = "delivered"
    /\ Len(request.before.deliveryAttempts) = 1
    /\ request.response = 400

(***************************************************************************)
(* Orders that have left the flow.                                         *)
(***************************************************************************)
\* C21: once the stored order is cancelled, returned or refunded, no request
\* served by updateOrderStatus or cancelOrder changes its status.
FinalStatusStays ==
    [][(orderDoc.exists /\ orderDoc.status \in {"cancelled", "returned", "refunded"})
          => orderDoc'.status = orderDoc.status]_vars

(***************************************************************************)
(* statusHistory and deliveryAttempts.                                     *)
(***************************************************************************)
\* The stored order has just been saved by the named method or route.
OrderSavedBy(method) ==
    orderDoc.exists /\ orderOp.method = method /\ orderOp.outcome = "saved"

\* C22: a change of status through Order.updateStatus adds exactly one entry
\* to tracking.statusHistory.
StatusChangeAddsOneEntry ==
    (OrderSavedBy("updateStatus") /\ orderDoc.status # orderOp.before.status) =>
        Len(orderDoc.statusHistory) = Len(orderOp.before.statusHistory) + 1

\* C23: after every completed save of the order, by creation, updateStatus,
\* addDeliveryAttempt, the assign-driver route or the accept-order route, the
\* last entry of tracking.statusHistory carries the order's current status.
LastHistoryEntryIsCurrentStatus ==
    orderDoc.exists =>
        /\ orderDoc.statusHistory # <<>>
        /\ orderDoc.statusHistory[Len(orderDoc.statusHistory)].status = orderDoc.status

\* Witness of C23: a third failed attempt turned the order into a returned
\* one; only the pre-save hook wrote the history entry of that change.
ThirdFailureWroteHistory ==
    /\ OrderSavedBy("addDeliveryAttempt")
    /\ orderOp.result = "failed"
    /\ orderDoc.status = "returned"
    /\ orderOp.before.status # "returned"
    /\ Len(orderDoc.statusHistory) = Len(orderOp.before.statusHistory) + 1

\* The order went from accepted by a driver to delivered, without
\* updateStatus: accept-order, then a successful attempt.
AcceptedOrderDelivered ==
    /\ OrderSavedBy("addDeliveryAttempt")
    /\ orderOp.before.assignedDriver # ""
    /\ orderOp.before.status = "pickup_scheduled"
    /\ orderDoc.status = "delivered"

\* The failed attempts among those recorded.
FailedAttempts(attempts) ==
    Cardinality({i \in 1..Len(attempts) : attempts[i].result = "failed"})

\* C24: addDeliveryAttempt turns an order into a returned one only when, the
\* attempt being recorded included, at least three failed attempts are on
\* record; rescheduled and customer_not_available attempts do not count.
ReturnedOnlyAfterThreeFailures ==
    (/\ OrderSavedBy("addDeliveryAttempt")
     /\ orderDoc.status = "returned"
     /\ orderOp.before.status # "returned")
        => FailedAttempts(orderDoc.deliveryAttempts) >= 3

(***************************************************************************)
(* The driver's active deliveries and status.                              *)
(***************************************************************************)
DriverCalled(method) == driverDoc.exists /\ driverOp.method = method

\* C25: activeDeliveries holds no order twice and never more than
\* preferences.maxDeliveries orders; assignOrder at full capacity throws and
\* leaves activeDeliveries and status as they were.
ActiveDeliveriesWithinCapacity ==
    driverDoc.exists =>
        /\ \A i, j \in 1..Len(driverDoc.activeDeliveries) :
              driverDoc.activeDeliveries[i] = driverDoc.activeDeliveries[j] => i = j
        /\ Len(driverDoc.activeDeliveries) <= driverDoc.maxDeliveries
        /\ (/\ DriverCalled("assignOrder")
            /\ Len(driverOp.before.activeDeliveries) >= driverOp.before.maxDeliveries)
              => /\ driverOp.outcome = "threw"
                 /\ driverDoc.activeDeliveries = driverOp.before.activeDeliveries
                 /\ driverDoc.status = driverOp.before.status

\* Witness of C25: a driver on a break with two of two deliveries was given a
\* third order; the call threw.
ThirdOrderRefused ==
    /\ DriverCalled("assignOrder")
    /\ driverOp.outcome = "threw"
    /\ driverDoc.maxDeliveries = 2
    /\ Len(driverDoc.activeDeliveries) = 2
    /\ ~includes(driverDoc.activeDeliveries, driverOp.order)
    /\ driverDoc.status = "on_break"

\* C26: assignOrder with an order that is already among the driver's active
\* deliveries succeeds and leaves activeDeliveries and status as they were,
\* at every load from one delivery up to and including maxDeliveries.
AssignOrderIsIdempotent ==
    (/\ DriverCalled("assignOrder")
     /\ includes(driverOp.before.activeDeliveries, driverOp.order))
        => /\ driverOp.outcome = "saved"
           /\ driverDoc.activeDeliveries = driverOp.before.activeDeliveries
           /\ driverDoc.status = driverOp.before.status

\* The delivery counters of performance.
DeliveryCounters(driver) ==
    <<driver.totalDeliveries, driver.successfulDeliveries, driver.failedDeliveries,
      driver.currentMonthDeliveries>>

\* C27: completeDelivery changes the status only from 'busy' to 'available',
\* and only when the completed order was the last active delivery; for an
\* order that is not in activeDeliveries it changes neither the status nor
\* the delivery counters.
CompleteDeliveryFreesBusyDriverOnly ==
    DriverCalled("completeDelivery") =>
        /\ driverDoc.status # driverOp.before.status =>
              /\ driverOp.before.status = "busy"
              /\ driverDoc.status = "available"
              /\ driverOp.before.activeDeliveries = <<driverOp.order>>
        /\ ~includes(driverOp.before.activeDeliveries, driverOp.order) =>
              /\ driverDoc.status = driverOp.before.status
              /\ DeliveryCounters(driverDoc) = DeliveryCounters(driverOp.before)

====
